---- MODULE Spec2Model ----
(***************************************************************************)
(* Model of cleanup-sra-dev.py: the SRA cleanup orchestrator.  One run of  *)
(* main() over the three accounts, every provider (boto3) call being one   *)
(* step whose outcome (return, ClientError, other exception) is chosen by  *)
(* the environment.                                                        *)
(***************************************************************************)
EXTENDS Integers, Sequences, FiniteSets, TLC

VARIABLES
    delete_mode,        \* args.delete
    aws,                \* what the provider holds, per account key
    faults,             \* provider failures injected so far
    pc,                 \* position of the control flow
    acct,               \* index of the account main() is at
    h,                  \* index of the next handler call in scan_account
    frame,              \* local variables of the running handler
    cleanup_report,     \* the global CleanupReport
    calls,              \* provider calls issued so far, in order
    invoked,            \* handler invocations so far, in order
    discovered,         \* entries counted by add_resource_found so far
    returned,           \* scan_account's return value per account key
    success_count,      \* main's success_count
    summary,            \* concluding line of print_summary
    announced,          \* concluding status line of main
    exit_status         \* exit status of the process

vars  == <<delete_mode, aws, faults, pc, acct, h, frame, cleanup_report, calls,
           invoked, discovered, returned, success_count, summary, announced,
           exit_status>>

\* what no step of a handler changes
outer == <<delete_mode, aws, invoked, success_count, summary, announced,
           exit_status>>

-----------------------------------------------------------------------------
(* Bounds *)

\* Provider failures (ClientError, other exception, waiter failure, session
\* failure) the environment may inject.
MaxFaults == 1

\* stack summaries in one response of list_stacks
ListStacksPageLen == 2

-----------------------------------------------------------------------------
(* Program constants *)

ACCOUNT_KEYS == <<"master", "audit", "log">>

ACCOUNTS ==
    [master |-> [profile |-> "aws-sso-dev-root",  name |-> "Master Account"],
     audit  |-> [profile |-> "aws-sso-dev-audit", name |-> "Audit Account"],
     log    |-> [profile |-> "aws-sso-dev-log",   name |-> "Log Archive Account"]]

SRA_REGIONS == <<"us-east-1", "us-west-2">>

\* region=None
None == "None"

\* StackStatusFilter of list_stacks
StackStatusFilter ==
    {"CREATE_COMPLETE", "UPDATE_COMPLETE", "UPDATE_ROLLBACK_COMPLETE",
     "CREATE_FAILED", "DELETE_FAILED", "ROLLBACK_COMPLETE"}

\* chunk size of delete_parameters and delete_stack_instances
BatchSize == 10

\* the calls of scan_account, in source order
HandlerOrder_RoleFirst ==
    <<"list_iam_roles", "list_cloudformation_stacks", "list_lambda_functions",
      "list_ssm_parameters", "list_cloudwatch_log_groups", "list_s3_buckets",
      "list_cloudformation_stacksets">>

HandlerOrder ==
    <<"list_cloudformation_stacks", "list_lambda_functions", "list_iam_roles",
      "list_ssm_parameters", "list_cloudwatch_log_groups", "list_s3_buckets",
      "list_cloudformation_stacksets">>

-----------------------------------------------------------------------------
(* Names are sequences of characters; str.lower() and the `in` operator   *)

UpperChars == <<"A","B","C","D","E","F","G","H","I","J","K","L","M",
                "N","O","P","Q","R","S","T","U","V","W","X","Y","Z">>
LowerChars == <<"a","b","c","d","e","f","g","h","i","j","k","l","m",
                "n","o","p","q","r","s","t","u","v","w","x","y","z">>

LowerChar(c) ==
    IF \E k \in 1..Len(UpperChars) : UpperChars[k] = c
    THEN LowerChars[CHOOSE k \in 1..Len(UpperChars) : UpperChars[k] = c]
    ELSE c

\* name.lower()
lower(name) == [k \in 1..Len(name) |-> LowerChar(name[k])]

\* needle in hay
Contains(needle, hay) ==
    \E k \in 1..(Len(hay) - Len(needle) + 1) :
        SubSeq(hay, k, k + Len(needle) - 1) = needle

matches_WrongToken(name) == Contains(<<"s","r">>, lower(name))

\* 'sra' in name.lower()
matches(name) == Contains(<<"s","r","a">>, lower(name))

\* if delete_mode:
teardown_enabled_Always(mode) == TRUE

teardown_enabled(mode) == mode

Flatten(pages) ==
    LET RECURSIVE F(_)
        F(k) == IF k > Len(pages) THEN <<>> ELSE pages[k] \o F(k + 1)
    IN F(1)

Min(a, b) == IF a < b THEN a ELSE b

\* the whole list sent as one request
Chunks_Whole(xs, n) == IF xs = <<>> THEN <<>> ELSE <<xs>>

\* [xs[k:k+n] for k in range(0, len(xs), n)]
Chunks(xs, n) ==
    [k \in 1..((Len(xs) + n - 1) \div n) |->
        SubSeq(xs, (k - 1) * n + 1, Min(k * n, Len(xs)))]

-----------------------------------------------------------------------------
(* The provider's holdings *)

sra1 == <<"s","r","a","1">>
SRA2 == <<"S","R","A","2">>
xSrA == <<"x","S","r","A">>
db   == <<"d","b">>
sr_a == <<"s","r","-","a">>

\* further names that hold the token
Named(c) == <<"s","r","a",c>>

\* the stack instances of a stack set in one region, one per account
InstancesIn(accounts, region) ==
    [k \in 1..Len(accounts) |-> [Account |-> accounts[k], Region |-> region]]

East == SRA_REGIONS[1]
West == SRA_REGIONS[2]

NoPages == East :> <<<<>>>> @@ West :> <<<<>>>>

\* An account with no resource at all
EmptyAccount ==
    [stacks     |-> NoPages,
     functions  |-> NoPages,
     roles      |-> <<<<>>>>,
     parameters |-> NoPages,
     log_groups |-> NoPages,
     buckets    |-> <<>>,
     stack_sets |-> <<<<>>>>]

MasterHoldings ==
    [stacks |->
        East :> << <<[StackName |-> sra1, StackStatus |-> "CREATE_COMPLETE"],
                     [StackName |-> db,   StackStatus |-> "CREATE_COMPLETE"],
                     [StackName |-> xSrA, StackStatus |-> "UPDATE_ROLLBACK_FAILED"]>> >>
     @@ West :> << <<[StackName |-> SRA2, StackStatus |-> "DELETE_FAILED"],
                     [StackName |-> sra1, StackStatus |-> "DELETE_COMPLETE"],
                     [StackName |-> db,   StackStatus |-> "CREATE_COMPLETE"],
                     [StackName |-> xSrA, StackStatus |-> "CREATE_COMPLETE"]>> >>,
     functions |->
        East :> << <<xSrA>>, <<db>> >> @@ West :> << <<>> >>,
     roles |->
        << <<[RoleName |-> sra1,
              AttachedPolicies |-> <<[PolicyName |-> "ReadOnly", PolicyArn |-> "arn:ReadOnly"]>>,
              PolicyNames |-> <<"inline-1">>],
             [RoleName |-> sr_a, AttachedPolicies |-> <<>>, PolicyNames |-> <<>>]>> >>,
     parameters |->
        East :> << <<sra1, db>>, <<SRA2>>,
                   <<Named("3"), Named("4"), Named("5"), Named("6"), Named("7"),
                     Named("8"), Named("9"), Named("x"), Named("y")>> >>
     @@ West :> << <<xSrA>> >>,
     log_groups |->
        East :> << <<sr_a>> >> @@ West :> << <<sra1>> >>,
     buckets |->
        <<[Name |-> SRA2,
           pages |-> <<[Versions |-> <<[Key |-> "k1", VersionId |-> "v1"],
                                       [Key |-> "k1", VersionId |-> "v2"]>>,
                        DeleteMarkers |-> <<[Key |-> "k2", VersionId |-> "m1"]>>],
                       [Versions |-> <<[Key |-> "k3", VersionId |-> "v3"]>>]>>],
          [Name |-> db,
           pages |-> <<[Versions |-> <<[Key |-> "k9", VersionId |-> "v9"]>>]>>]>>,
     stack_sets |->
        << <<[StackSetName |-> sra1, Status |-> "ACTIVE",
              instances |->
                << InstancesIn(<<"111", "222", "333", "444", "555", "666">>, East),
                   InstancesIn(<<"111", "222", "333", "444", "555">>, West) >>],
             [StackSetName |-> SRA2, Status |-> "DELETED", instances |-> << <<>> >>],
             [StackSetName |-> db, Status |-> "ACTIVE",
              instances |-> << <<[Account |-> "111", Region |-> East]>> >>]>>,
           <<[StackSetName |-> xSrA, Status |-> "ACTIVE", instances |-> << <<>> >>]>> >>]

AuditHoldings ==
    [stacks     |-> NoPages,
     functions  |-> East :> << <<>> >> @@ West :> << <<sra1>> >>,
     roles      |-> << <<[RoleName |-> SRA2, AttachedPolicies |-> <<>>,
                          PolicyNames |-> <<>>]>> >>,
     parameters |-> NoPages,
     log_groups |-> NoPages,
     buckets    |-> <<[Name |-> xSrA, pages |-> <<[IsTruncated |-> FALSE]>>]>>,
     stack_sets |-> << <<[StackSetName |-> xSrA, Status |-> "ACTIVE",
                          instances |-> << <<>> >>]>> >>]

LogHoldings ==
    [EmptyAccount EXCEPT !.buckets = <<[Name |-> db, pages |-> <<[IsTruncated |-> FALSE]>>]>>]

World == [master |-> MasterHoldings, audit |-> AuditHoldings, log |-> LogHoldings]

\* cf_client.list_stacks(StackStatusFilter=[...])['StackSummaries']: the
\* first response only; the provider answers with the stacks in one of the
\* listed states, ListStacksPageLen of them to a response
ListStacks(key, region) ==
    LET live == SelectSeq(Flatten(aws[key].stacks[region]),
                          LAMBDA s : s.StackStatus \in StackStatusFilter)
        page == SubSeq(live, 1, Min(ListStacksPageLen, Len(live)))
    IN [k \in 1..Len(page) |-> page[k].StackName]

\* paginator('list_functions').paginate()
ListFunctions(key, region) == Flatten(aws[key].functions[region])

\* paginator('describe_parameters').paginate()
DescribeParameters(key, region) == Flatten(aws[key].parameters[region])

\* paginator('describe_log_groups').paginate()
DescribeLogGroups(key, region) == Flatten(aws[key].log_groups[region])

\* paginator('list_roles').paginate()
ListRoles(key) == Flatten(aws[key].roles)

\* s3_client.list_buckets()['Buckets']
ListBuckets(key) == aws[key].buckets

\* paginator('list_stack_sets').paginate()
ListStackSets(key) == Flatten(aws[key].stack_sets)

RoleNamed(key, name) ==
    LET all == ListRoles(key)
    IN all[CHOOSE k \in 1..Len(all) : all[k].RoleName = name]

BucketNamed(key, name) ==
    LET all == ListBuckets(key)
    IN all[CHOOSE k \in 1..Len(all) : all[k].Name = name]

StackSetNamed(key, name) ==
    LET all == ListStackSets(key)
    IN all[CHOOSE k \in 1..Len(all) : all[k].StackSetName = name]

-----------------------------------------------------------------------------
(* CleanupReport *)

\* key = f"{account_name} ({region})" if region else account_name
Key(account_name, region) ==
    IF region # None THEN <<account_name, region>> ELSE <<account_name>>


KeySeq ==
    [k \in 1..(3 * Len(ACCOUNT_KEYS)) |->
        Key(ACCOUNTS[ACCOUNT_KEYS[((k - 1) \div 3) + 1]].name,
            <<None, East, West>>[((k - 1) % 3) + 1])]

Keys == {KeySeq[k] : k \in 1..Len(KeySeq)}

EmptyDict == [x \in {} |-> 0]

\* d[k] = v
Put(d, k, v) == [x \in DOMAIN d \cup {k} |-> IF x = k THEN v ELSE d[x]]

\* CleanupReport.__init__: the defaultdicts, every key at its default
NewReport ==
    [errors            |-> [k \in Keys |-> <<>>],
     successes         |-> [k \in Keys |-> <<>>],
     resources_found   |-> [k \in Keys |-> EmptyDict],
     resources_deleted |-> [k \in Keys |-> EmptyDict]]

add_error(rep, account_name, resource_type, resource_name, error_msg, region) ==
    [rep EXCEPT !.errors[Key(account_name, region)] =
        Append(@, [resource_type |-> resource_type,
                   resource_name |-> resource_name,
                   error         |-> error_msg,
                   region        |-> region])]

add_success(rep, account_name, resource_type, resource_name, region) ==
    [rep EXCEPT !.successes[Key(account_name, region)] =
        Append(@, [resource_type |-> resource_type,
                   resource_name |-> resource_name,
                   region        |-> region])]

add_resource_found(rep, account_name, resource_type, count, region) ==
    [rep EXCEPT !.resources_found[Key(account_name, region)] =
        Put(@, resource_type, count)]

add_resource_deleted(rep, account_name, resource_type, count, region) ==
    [rep EXCEPT !.resources_deleted[Key(account_name, region)] =
        Put(@, resource_type, count)]

SeqSum(f, n) ==
    LET RECURSIVE S(_)
        S(k) == IF k = 0 THEN 0 ELSE f[k] + S(k - 1)
    IN S(n)

\* sum(len(errors) for errors in self.errors.values())
total_errors(rep) ==
    SeqSum([k \in 1..Len(KeySeq) |-> Len(rep.errors[KeySeq[k]])], Len(KeySeq))

\* sum(len(successes) for successes in self.successes.values())
total_successes(rep) ==
    SeqSum([k \in 1..Len(KeySeq) |-> Len(rep.successes[KeySeq[k]])], Len(KeySeq))

-----------------------------------------------------------------------------
(* Control flow *)

AccountKey == ACCOUNT_KEYS[acct]

account_name == ACCOUNTS[AccountKey].name

\* locals of a handler at its entry
NewFrame ==
    [r |-> 1, items |-> <<>>, i |-> 1, deleted_count |-> 0,
     sub |-> <<>>, j |-> 1, p |-> 1]

\* how a provider call can end
Outcomes == {"ok", "ClientError", "Exception"}

Allowed(o) == o = "ok" \/ faults < MaxFaults

Charge(o) == faults' = IF o = "ok" THEN faults ELSE faults + 1

Call(op, region, target, arg, result) ==
    [op |-> op, account |-> AccountKey, region |-> region, target |-> target,
     arg |-> arg, result |-> result]

\* first pc of each handler, by position in HandlerOrder
EntryPc(name) ==
    CASE name = "list_cloudformation_stacks"    -> "cf_list"
      [] name = "list_lambda_functions"         -> "lambda_list"
      [] name = "list_iam_roles"                -> "iam_list"
      [] name = "list_ssm_parameters"           -> "ssm_list"
      [] name = "list_cloudwatch_log_groups"    -> "logs_list"
      [] name = "list_s3_buckets"               -> "s3_list"
      [] name = "list_cloudformation_stacksets" -> "ss_list"

Init ==
    /\ delete_mode \in BOOLEAN
    /\ aws = World
    /\ faults = 0
    /\ pc = "main"
    /\ acct = 1
    /\ h = 0
    /\ frame = NewFrame
    /\ cleanup_report = NewReport
    /\ calls = <<>>
    /\ invoked = <<>>
    /\ discovered = <<>>
    /\ returned = [k \in DOMAIN ACCOUNTS |-> "none"]
    /\ success_count = 0
    /\ summary = "none"
    /\ announced = "none"
    /\ exit_status = "running"

\* a session handed out whatever the identity check answered
get_session_NeverNone(o) == "session"

\* get_session: return session; except NoCredentialsError: return None;
\* except ClientError: return None  (o: how get_caller_identity ended)
get_session(o) == IF o = "ok" THEN "session" ELSE None

\* main: for account_key, account_config in ACCOUNTS.items(): scan_account(...)
\* scan_account: session = get_session(profile); if not session: ... return False
scan_account_get_session ==
    /\ pc = "main"
    /\ acct <= Len(ACCOUNT_KEYS)
    /\ \E o \in {"ok", "NoCredentialsError", "ClientError", "Exception"} :
        /\ Allowed(o)
        /\ Charge(o)
        /\ calls' = Append(calls, Call("get_caller_identity", None, <<>>, <<>>, o))
        /\ CASE o = "Exception" ->
                \* neither except clause of get_session matches: main dies
                /\ pc' = "crashed"
                /\ exit_status' = "1"
                /\ UNCHANGED <<acct, h, cleanup_report, returned>>
             [] o # "Exception" /\ get_session(o) # None ->
                /\ pc' = "scan"
                /\ h' = 1
                /\ UNCHANGED <<acct, cleanup_report, returned, exit_status>>
             [] o # "Exception" /\ get_session(o) = None ->
                /\ cleanup_report' =
                      add_error(cleanup_report, account_name, "Conexion",
                                <<"sesion">>, <<"msg", "No se pudo establecer conexion">>, None)
                /\ returned' = [returned EXCEPT ![AccountKey] = "False"]
                /\ acct' = acct + 1
                /\ UNCHANGED <<pc, h, exit_status>>
    /\ UNCHANGED <<delete_mode, aws, frame, invoked, discovered, success_count,
                   summary, announced>>

\* whether scan_account reaches the call at position k of its try block
HandlerApplies(k) ==
    k <= 6 \/ (k = 7 /\ AccountKey = "master")

\* scan_account: the next handler call of the try block
scan_account_invoke ==
    /\ pc = "scan"
    /\ h <= Len(HandlerOrder)
    /\ HandlerApplies(h)
    /\ pc' = EntryPc(HandlerOrder[h])
    /\ invoked' = Append(invoked, <<AccountKey, HandlerOrder[h]>>)
    /\ frame' = NewFrame
    /\ UNCHANGED <<delete_mode, aws, faults, acct, h, cleanup_report, calls,
                   discovered, returned, success_count, summary, announced,
                   exit_status>>

\* scan_account: return True; main: success_count += 1
scan_account_return ==
    /\ pc = "scan"
    /\ ~(h <= Len(HandlerOrder) /\ HandlerApplies(h))
    /\ returned' = [returned EXCEPT ![AccountKey] = "True"]
    /\ success_count' = success_count + 1
    /\ acct' = acct + 1
    /\ pc' = "main"
    /\ h' = 0
    /\ UNCHANGED <<delete_mode, aws, faults, frame, cleanup_report, calls,
                   invoked, discovered, summary, announced, exit_status>>

\* scan_account: except Exception as e: add_error(...); return False
\* (sets the variables a handler step sets, but faults, calls, discovered)
Abort(e) ==
    /\ cleanup_report' =
          add_error(cleanup_report, account_name, "Proceso General",
                    <<"scan_account">>, e, None)
    /\ returned' = [returned EXCEPT ![AccountKey] = "False"]
    /\ acct' = acct + 1
    /\ pc' = "main"
    /\ h' = 0
    /\ frame' = NewFrame

\* a handler returns to scan_account
Return ==
    /\ pc' = "scan"
    /\ h' = h + 1
    /\ frame' = NewFrame

\* CleanupReport.print_summary: the concluding line
print_summary ==
    /\ pc = "main"
    /\ acct > Len(ACCOUNT_KEYS)
    /\ summary' = IF total_errors(cleanup_report) > 0 THEN "errors" ELSE "all_ok"
    /\ pc' = "final"
    /\ UNCHANGED <<delete_mode, aws, faults, acct, h, frame, cleanup_report,
                   calls, invoked, discovered, returned, success_count,
                   announced, exit_status>>

\* main: the final status line; main returns and the interpreter exits
main_final ==
    /\ pc = "final"
    /\ announced' = IF success_count = Len(ACCOUNT_KEYS)
                    THEN "success" ELSE "with_errors"
    /\ exit_status' = "0"
    /\ pc' = "done"
    /\ UNCHANGED <<delete_mode, aws, faults, acct, h, frame, cleanup_report,
                   calls, invoked, discovered, returned, success_count, summary>>

-----------------------------------------------------------------------------
(* Region-scoped handlers: the shape shared by stacks, functions,         *)
(* parameters and log groups                                              *)

\* what a listing call answers in each region, for the account at hand
ByRegion_ListStacks ==
    [rg \in {East, West} |-> ListStacks(AccountKey, rg)]

ByRegion_ListFunctions ==
    [rg \in {East, West} |-> ListFunctions(AccountKey, rg)]

ByRegion_DescribeParameters ==
    [rg \in {East, West} |-> DescribeParameters(AccountKey, rg)]

ByRegion_DescribeLogGroups ==
    [rg \in {East, West} |-> DescribeLogGroups(AccountKey, rg)]

\* the region loop left after its first region
NextRegionPc_FirstOnly(at, next) == next

\* for region in SRA_REGIONS: where the loop goes after the region at hand
NextRegionPc(at, next) == IF frame.r = Len(SRA_REGIONS) THEN next ELSE at

\* for region in SRA_REGIONS: try: list, filter, add_resource_found
\* except ClientError: add_error(..., "listado", e, region)
RegionalList(at, op, listing, plural, next) ==
    /\ pc = at
    /\ LET region == SRA_REGIONS[frame.r]
           after  == NextRegionPc(at, next)
       IN \E o \in Outcomes :
            /\ Allowed(o)
            /\ Charge(o)
            /\ calls' = Append(calls, Call(op, region, <<>>, <<>>, o))
            /\ CASE o = "ok" ->
                    LET names == SelectSeq(listing[region], matches)
                        region_items ==
                            [k \in 1..Len(names) |->
                                [name |-> names[k], region |-> region]]
                    IN /\ frame' = [frame EXCEPT !.r = @ + 1,
                                                 !.items = @ \o region_items]
                       /\ cleanup_report' =
                            IF region_items # <<>>
                            THEN add_resource_found(cleanup_report, account_name,
                                                    plural, Len(region_items), region)
                            ELSE cleanup_report
                       /\ discovered' = discovered \o
                            [k \in 1..Len(names) |->
                                [account |-> AccountKey, resource_type |-> plural,
                                 region |-> region, name |-> names[k]]]
                       /\ pc' = after
                       /\ UNCHANGED <<h, acct, returned>>
                 [] o = "ClientError" ->
                    /\ frame' = [frame EXCEPT !.r = @ + 1]
                    /\ cleanup_report' =
                          add_error(cleanup_report, account_name, plural,
                                    <<"listado">>, <<o, op>>, region)
                    /\ pc' = after
                    /\ UNCHANGED <<discovered, h, acct, returned>>
                 [] o = "Exception" ->
                    /\ Abort(<<o, op>>)
                    /\ UNCHANGED discovered
    /\ UNCHANGED outer

\* if not all_sra_x: return ... if delete_mode: deleted_count = 0; for ...
RegionalCheck(at, first) ==
    /\ pc = at
    /\ IF frame.items # <<>> /\ teardown_enabled(delete_mode)
       THEN /\ pc' = first
            /\ frame' = [frame EXCEPT !.i = 1, !.deleted_count = 0]
            /\ UNCHANGED h
       ELSE Return
    /\ UNCHANGED <<faults, calls, cleanup_report, discovered, returned, acct>>
    /\ UNCHANGED outer

\* the next iteration of a teardown loop over frame.items
NextItem(at, finish) ==
    IF frame.i = Len(frame.items) THEN finish ELSE at

\* for x_info in all_sra_x: try: delete; add_success; deleted_count += 1
\* except ClientError as e: add_error(...)
SimpleDelete(at, op, singular, finish) ==
    /\ pc = at
    /\ LET item == frame.items[frame.i]
       IN \E o \in Outcomes :
            /\ Allowed(o)
            /\ Charge(o)
            /\ calls' = Append(calls, Call(op, item.region, item.name, <<>>, o))
            /\ CASE o = "ok" ->
                    /\ cleanup_report' =
                          add_success(cleanup_report, account_name, singular,
                                      item.name, item.region)
                    /\ frame' = [frame EXCEPT !.i = @ + 1, !.deleted_count = @ + 1]
                    /\ pc' = NextItem(at, finish)
                    /\ UNCHANGED <<h, acct, returned>>
                 [] o = "ClientError" ->
                    /\ cleanup_report' =
                          add_error(cleanup_report, account_name, singular,
                                    item.name, <<o, op>>, item.region)
                    /\ frame' = [frame EXCEPT !.i = @ + 1]
                    /\ pc' = NextItem(at, finish)
                    /\ UNCHANGED <<h, acct, returned>>
                 [] o = "Exception" -> Abort(<<o, op>>)
    /\ UNCHANGED discovered
    /\ UNCHANGED outer

\* the number of resources found recorded as the deleted count
Finish_CountsFound(at, plural) ==
    /\ pc = at
    /\ cleanup_report' =
          add_resource_deleted(cleanup_report, account_name, plural,
                               Len(frame.items), None)
    /\ Return
    /\ UNCHANGED <<faults, calls, discovered, returned, acct>>
    /\ UNCHANGED outer

\* cleanup_report.add_resource_deleted(account_name, plural, deleted_count)
Finish(at, plural) ==
    /\ pc = at
    /\ cleanup_report' =
          add_resource_deleted(cleanup_report, account_name, plural,
                               frame.deleted_count, None)
    /\ Return
    /\ UNCHANGED <<faults, calls, discovered, returned, acct>>
    /\ UNCHANGED outer

-----------------------------------------------------------------------------
(* list_cloudformation_stacks *)

list_cloudformation_stacks_list ==
    RegionalList("cf_list", "list_stacks", ByRegion_ListStacks,
                 "CloudFormation Stacks", "cf_check")

list_cloudformation_stacks_check == RegionalCheck("cf_check", "cf_delete")

\* cf_client.delete_stack(StackName=stack_name)
list_cloudformation_stacks_delete_stack ==
    /\ pc = "cf_delete"
    /\ LET item == frame.items[frame.i]
       IN \E o \in Outcomes :
            /\ Allowed(o)
            /\ Charge(o)
            /\ calls' = Append(calls, Call("delete_stack", item.region, item.name, <<>>, o))
            /\ CASE o = "ok" ->
                    /\ pc' = "cf_wait"
                    /\ UNCHANGED <<cleanup_report, frame, h, acct, returned>>
                 [] o = "ClientError" ->
                    /\ cleanup_report' =
                          add_error(cleanup_report, account_name,
                                    "CloudFormation Stack", item.name,
                                    <<o, "delete_stack">>, item.region)
                    /\ frame' = [frame EXCEPT !.i = @ + 1]
                    /\ pc' = NextItem("cf_delete", "cf_finish")
                    /\ UNCHANGED <<h, acct, returned>>
                 [] o = "Exception" -> Abort(<<o, "delete_stack">>)
    /\ UNCHANGED discovered
    /\ UNCHANGED outer

\* WaiterConfig={'Delay': 10, 'MaxAttempts': 60}
WaiterDelay == 10

WaiterMaxAttempts == 60

\* the stack is deleted again when the wait fails
after_wait_failure_Retry == "cf_delete"

\* except Exception as wait_error: try: ... describe_stacks(...)
after_wait_failure == "cf_describe"

\* waiter.wait(StackName=..., WaiterConfig={'Delay': 10, 'MaxAttempts': 60})
list_cloudformation_stacks_wait ==
    /\ pc = "cf_wait"
    /\ LET item == frame.items[frame.i]
       IN \E o \in {"ok", "WaiterError"} :
            /\ Allowed(o)
            /\ Charge(o)
            /\ calls' = Append(calls, Call("wait_stack_delete_complete",
                                           item.region, item.name,
                                           <<WaiterDelay, WaiterMaxAttempts>>, o))
            /\ IF o = "ok"
               THEN /\ cleanup_report' =
                          add_success(cleanup_report, account_name,
                                      "CloudFormation Stack", item.name, item.region)
                    /\ frame' = [frame EXCEPT !.i = @ + 1, !.deleted_count = @ + 1]
                    /\ pc' = NextItem("cf_delete", "cf_finish")
               ELSE /\ pc' = after_wait_failure
                    /\ UNCHANGED <<cleanup_report, frame>>
    /\ UNCHANGED <<discovered, h, acct, returned>>
    /\ UNCHANGED outer

\* a stack that failed to delete taken for a deleted one
fallback_outcome_FailedAsDeleted(stack_status) ==
    IF stack_status \in {"DELETE_COMPLETE", "DELETE_FAILED"} THEN "success"
    ELSE "unexpected"

\* if stack_status == 'DELETE_COMPLETE': ... elif stack_status ==
\* 'DELETE_FAILED': ... else: ...
fallback_outcome(stack_status) ==
    CASE stack_status = "DELETE_COMPLETE" -> "success"
      [] stack_status = "DELETE_FAILED"   -> "manual"
      [] OTHER                            -> "unexpected"

\* the fallback: describe_stacks(StackName=...)['Stacks'][0]['StackStatus']
list_cloudformation_stacks_describe ==
    /\ pc = "cf_describe"
    /\ LET item == frame.items[frame.i]
       IN \E o \in {"DELETE_COMPLETE", "DELETE_FAILED", "DELETE_IN_PROGRESS",
                    "ClientError"} :
            /\ calls' = Append(calls, Call("describe_stacks", item.region,
                                           item.name, <<>>, o))
            /\ CASE o = "ClientError" ->
                    /\ cleanup_report' =
                          add_error(cleanup_report, account_name,
                                    "CloudFormation Stack", item.name,
                                    <<o, "describe_stacks">>, item.region)
                    /\ frame' = [frame EXCEPT !.i = @ + 1]
                 [] o # "ClientError" /\ fallback_outcome(o) = "success" ->
                    /\ cleanup_report' =
                          add_success(cleanup_report, account_name,
                                      "CloudFormation Stack", item.name, item.region)
                    /\ frame' = [frame EXCEPT !.i = @ + 1, !.deleted_count = @ + 1]
                 [] o # "ClientError" /\ fallback_outcome(o) = "manual" ->
                    /\ cleanup_report' =
                          add_error(cleanup_report, account_name,
                                    "CloudFormation Stack", item.name,
                                    <<"Estado - Requiere eliminacion manual", o>>,
                                    item.region)
                    /\ frame' = [frame EXCEPT !.i = @ + 1]
                 [] o # "ClientError" /\ fallback_outcome(o) = "unexpected" ->
                    /\ cleanup_report' =
                          add_error(cleanup_report, account_name,
                                    "CloudFormation Stack", item.name,
                                    <<"Estado", o>>, item.region)
                    /\ frame' = [frame EXCEPT !.i = @ + 1]
            /\ pc' = NextItem("cf_delete", "cf_finish")
    /\ UNCHANGED <<faults, discovered, h, acct, returned>>
    /\ UNCHANGED outer

list_cloudformation_stacks_finish == Finish("cf_finish", "CloudFormation Stacks")

-----------------------------------------------------------------------------
(* list_lambda_functions *)

list_lambda_functions_list ==
    RegionalList("lambda_list", "list_functions", ByRegion_ListFunctions,
                 "Lambda Functions", "lambda_check")

list_lambda_functions_check == RegionalCheck("lambda_check", "lambda_delete")

list_lambda_functions_delete_function ==
    SimpleDelete("lambda_delete", "delete_function", "Lambda Function",
                 "lambda_finish")

list_lambda_functions_finish == Finish("lambda_finish", "Lambda Functions")

-----------------------------------------------------------------------------
(* list_cloudwatch_log_groups *)

list_cloudwatch_log_groups_list ==
    RegionalList("logs_list", "describe_log_groups", ByRegion_DescribeLogGroups,
                 "CloudWatch Log Groups", "logs_check")

list_cloudwatch_log_groups_check == RegionalCheck("logs_check", "logs_delete")

list_cloudwatch_log_groups_delete_log_group ==
    SimpleDelete("logs_delete", "delete_log_group", "CloudWatch Log Group",
                 "logs_finish")

list_cloudwatch_log_groups_finish == Finish("logs_finish", "CloudWatch Log Groups")

-----------------------------------------------------------------------------
(* list_ssm_parameters *)

list_ssm_parameters_list ==
    RegionalList("ssm_list", "describe_parameters", ByRegion_DescribeParameters,
                 "SSM Parameters", "ssm_check")

\* the keys of parameters_by_region, in insertion order
RegionsOf(infos) ==
    LET RECURSIVE F(_, _)
        F(k, seen) ==
            IF k > Len(infos) THEN seen
            ELSE IF \E m \in 1..Len(seen) : seen[m] = infos[k].region
                 THEN F(k + 1, seen)
                 ELSE F(k + 1, Append(seen, infos[k].region))
    IN F(1, <<>>)

\* parameters_by_region[region]
NamesIn(infos, region) ==
    LET mine == SelectSeq(infos, LAMBDA x : x.region = region)
    IN [k \in 1..Len(mine) |-> mine[k].name]

\* for region, parameters in parameters_by_region.items():
\*     for i in range(0, len(parameters), 10): batch = parameters[i:i+10]
ParameterBatches(infos) ==
    LET regions == RegionsOf(infos)
    IN Flatten([m \in 1..Len(regions) |->
                  LET chunks == Chunks(NamesIn(infos, regions[m]), BatchSize)
                  IN [k \in 1..Len(chunks) |->
                        [region |-> regions[m], names |-> chunks[k]]]])

list_ssm_parameters_check ==
    /\ pc = "ssm_check"
    /\ IF frame.items # <<>> /\ teardown_enabled(delete_mode)
       THEN /\ pc' = "ssm_delete"
            /\ frame' = [frame EXCEPT !.deleted_count = 0, !.j = 1,
                                      !.sub = ParameterBatches(frame.items)]
            /\ UNCHANGED h
       ELSE Return
    /\ UNCHANGED <<faults, calls, cleanup_report, discovered, returned, acct>>
    /\ UNCHANGED outer

\* for param_name in batch: cleanup_report.add_success(...)
add_success_each(rep, account, resource_type, names, region) ==
    [rep EXCEPT !.successes[Key(account, region)] =
        @ \o [k \in 1..Len(names) |->
                [resource_type |-> resource_type, resource_name |-> names[k],
                 region |-> region]]]

\* the error of a batch put on its first name only
add_error_each_FirstName(rep, account, resource_type, names, error_msg, region) ==
    [rep EXCEPT !.errors[Key(account, region)] =
        Append(@, [resource_type |-> resource_type, resource_name |-> names[1],
                   error |-> error_msg, region |-> region])]

\* for param_name in batch: cleanup_report.add_error(...)
add_error_each(rep, account, resource_type, names, error_msg, region) ==
    [rep EXCEPT !.errors[Key(account, region)] =
        @ \o [k \in 1..Len(names) |->
                [resource_type |-> resource_type, resource_name |-> names[k],
                 error |-> error_msg, region |-> region]]]

\* ssm_client.delete_parameters(Names=batch)
list_ssm_parameters_delete_parameters ==
    /\ pc = "ssm_delete"
    /\ LET batch == frame.sub[frame.j]
           after == IF frame.j = Len(frame.sub) THEN "ssm_finish" ELSE "ssm_delete"
       IN \E o \in Outcomes :
            /\ Allowed(o)
            /\ Charge(o)
            /\ calls' = Append(calls, Call("delete_parameters", batch.region,
                                           <<>>, batch.names, o))
            /\ CASE o = "ok" ->
                    /\ cleanup_report' =
                          add_success_each(cleanup_report, account_name,
                                           "SSM Parameter", batch.names, batch.region)
                    /\ frame' = [frame EXCEPT !.j = @ + 1,
                                    !.deleted_count = @ + Len(batch.names)]
                    /\ pc' = after
                    /\ UNCHANGED <<h, acct, returned>>
                 [] o = "ClientError" ->
                    /\ cleanup_report' =
                          add_error_each(cleanup_report, account_name,
                                         "SSM Parameter", batch.names,
                                         <<o, "delete_parameters">>, batch.region)
                    /\ frame' = [frame EXCEPT !.j = @ + 1]
                    /\ pc' = after
                    /\ UNCHANGED <<h, acct, returned>>
                 [] o = "Exception" -> Abort(<<o, "delete_parameters">>)
    /\ UNCHANGED discovered
    /\ UNCHANGED outer

list_ssm_parameters_finish == Finish("ssm_finish", "SSM Parameters")

-----------------------------------------------------------------------------
(* Account-global handlers: the shape shared by roles, buckets, stack sets *)

\* try: list, filter; if not found: return; add_resource_found;
\* if delete_mode: ...  except ClientError: add_error(..., "listado", e)
GlobalList(at, op, names, plural, first) ==
    /\ pc = at
    /\ \E o \in Outcomes :
         /\ Allowed(o)
         /\ Charge(o)
         /\ calls' = Append(calls, Call(op, None, <<>>, <<>>, o))
         /\ CASE o = "ok" ->
                 IF names = <<>>
                 THEN /\ Return
                      /\ UNCHANGED <<cleanup_report, discovered, acct, returned>>
                 ELSE /\ cleanup_report' =
                            add_resource_found(cleanup_report, account_name,
                                               plural, Len(names), None)
                      /\ discovered' = discovered \o
                            [k \in 1..Len(names) |->
                                [account |-> AccountKey, resource_type |-> plural,
                                 region |-> None, name |-> names[k]]]
                      /\ IF teardown_enabled(delete_mode)
                         THEN /\ pc' = first
                              /\ frame' = [frame EXCEPT !.items = names, !.i = 1,
                                                        !.deleted_count = 0]
                              /\ UNCHANGED h
                         ELSE Return
                      /\ UNCHANGED <<acct, returned>>
              [] o = "ClientError" ->
                 /\ cleanup_report' =
                       add_error(cleanup_report, account_name, plural,
                                 <<"listado">>, <<o, op>>, None)
                 /\ Return
                 /\ UNCHANGED <<discovered, acct, returned>>
              [] o = "Exception" ->
                 /\ Abort(<<o, op>>)
                 /\ UNCHANGED discovered
    /\ UNCHANGED outer

\* the frame at the next resource of the teardown loop
NextResource == [frame EXCEPT !.i = @ + 1, !.sub = <<>>, !.j = 1, !.p = 1]

\* one provider call of a resource's teardown whose error is recorded and
\* the teardown of the resource goes on
GlobalStep_GoOnAfterError(at, op, arg, singular, okpc, okframe, okreport, loop, finish) ==
    /\ pc = at
    /\ LET name == frame.items[frame.i]
       IN \E o \in Outcomes :
            /\ Allowed(o)
            /\ Charge(o)
            /\ calls' = Append(calls, Call(op, None, name, arg, o))
            /\ CASE o = "ok" ->
                    /\ pc' = okpc
                    /\ frame' = okframe
                    /\ cleanup_report' = okreport
                    /\ UNCHANGED <<h, acct, returned>>
                 [] o = "ClientError" ->
                    /\ cleanup_report' =
                          add_error(cleanup_report, account_name, singular,
                                    name, <<o, op>>, None)
                    /\ frame' = okframe
                    /\ pc' = okpc
                    /\ UNCHANGED <<h, acct, returned>>
                 [] o = "Exception" -> Abort(<<o, op>>)
    /\ UNCHANGED discovered
    /\ UNCHANGED outer

\* one provider call of a resource's teardown, inside
\* try: ... except ClientError as e: add_error(account_name, singular, name, e)
GlobalStep(at, op, arg, singular, okpc, okframe, okreport, loop, finish) ==
    /\ pc = at
    /\ LET name == frame.items[frame.i]
       IN \E o \in Outcomes :
            /\ Allowed(o)
            /\ Charge(o)
            /\ calls' = Append(calls, Call(op, None, name, arg, o))
            /\ CASE o = "ok" ->
                    /\ pc' = okpc
                    /\ frame' = okframe
                    /\ cleanup_report' = okreport
                    /\ UNCHANGED <<h, acct, returned>>
                 [] o = "ClientError" ->
                    /\ cleanup_report' =
                          add_error(cleanup_report, account_name, singular,
                                    name, <<o, op>>, None)
                    /\ frame' = NextResource
                    /\ pc' = NextItem(loop, finish)
                    /\ UNCHANGED <<h, acct, returned>>
                 [] o = "Exception" -> Abort(<<o, op>>)
    /\ UNCHANGED discovered
    /\ UNCHANGED outer

\* [x[field] for x in listing]
NamesOf(listing, field) == [k \in 1..Len(listing) |-> listing[k][field]]

-----------------------------------------------------------------------------
(* list_iam_roles *)

list_iam_roles_list ==
    GlobalList("iam_list", "list_roles",
               NamesOf(SelectSeq(ListRoles(AccountKey),
                                 LAMBDA x : matches(x.RoleName)), "RoleName"),
               "IAM Roles", "iam_list_attached")

\* iam_client.list_attached_role_policies(RoleName=role_name)
list_iam_roles_list_attached ==
    LET policies == RoleNamed(AccountKey, frame.items[frame.i]).AttachedPolicies
    IN GlobalStep("iam_list_attached", "list_attached_role_policies", <<>>,
                  "IAM Role",
                  IF policies = <<>> THEN "iam_list_inline" ELSE "iam_detach",
                  [frame EXCEPT !.sub = policies, !.j = 1],
                  cleanup_report, "iam_list_attached", "iam_finish")

\* iam_client.detach_role_policy(RoleName=role_name, PolicyArn=...)
list_iam_roles_detach ==
    GlobalStep("iam_detach", "detach_role_policy",
               <<frame.sub[frame.j].PolicyArn>>, "IAM Role",
               IF frame.j = Len(frame.sub) THEN "iam_list_inline" ELSE "iam_detach",
               [frame EXCEPT !.j = @ + 1],
               cleanup_report, "iam_list_attached", "iam_finish")

\* iam_client.list_role_policies(RoleName=role_name)
list_iam_roles_list_inline ==
    LET policies == RoleNamed(AccountKey, frame.items[frame.i]).PolicyNames
    IN GlobalStep("iam_list_inline", "list_role_policies", <<>>, "IAM Role",
                  IF policies = <<>> THEN "iam_delete_role" ELSE "iam_delete_inline",
                  [frame EXCEPT !.sub = policies, !.j = 1],
                  cleanup_report, "iam_list_attached", "iam_finish")

\* iam_client.delete_role_policy(RoleName=role_name, PolicyName=policy_name)
list_iam_roles_delete_inline ==
    GlobalStep("iam_delete_inline", "delete_role_policy",
               <<frame.sub[frame.j]>>, "IAM Role",
               IF frame.j = Len(frame.sub) THEN "iam_delete_role"
                                           ELSE "iam_delete_inline",
               [frame EXCEPT !.j = @ + 1],
               cleanup_report, "iam_list_attached", "iam_finish")

\* iam_client.delete_role(RoleName=role_name); add_success; deleted_count += 1
list_iam_roles_delete_role ==
    GlobalStep("iam_delete_role", "delete_role", <<>>, "IAM Role",
               NextItem("iam_list_attached", "iam_finish"),
               [NextResource EXCEPT !.deleted_count = @ + 1],
               add_success(cleanup_report, account_name, "IAM Role",
                           frame.items[frame.i], None),
               "iam_list_attached", "iam_finish")

list_iam_roles_finish == Finish("iam_finish", "IAM Roles")

-----------------------------------------------------------------------------
(* list_s3_buckets *)

list_s3_buckets_list ==
    GlobalList("s3_list", "list_buckets",
               NamesOf(SelectSeq(ListBuckets(AccountKey),
                                 LAMBDA x : matches(x.Name)), "Name"),
               "S3 Buckets", "s3_list_object_versions")

PageObjects_VersionsOnly(page) ==
    IF "Versions" \in DOMAIN page THEN page.Versions ELSE <<>>

\* if 'Versions' in page: for obj in page['Versions']: ...
\* if 'DeleteMarkers' in page: for marker in page['DeleteMarkers']: ...
PageObjects(page) ==
    (IF "Versions" \in DOMAIN page THEN page.Versions ELSE <<>>)
    \o (IF "DeleteMarkers" \in DOMAIN page THEN page.DeleteMarkers ELSE <<>>)

\* the pages paginator('list_object_versions').paginate(Bucket=...) yields
VersionPages(key, bucket_name) == BucketNamed(key, bucket_name).pages

\* where the emptying loop goes once the objects of page frame.p are done
AfterPagePc ==
    IF frame.p = Len(VersionPages(AccountKey, frame.items[frame.i]))
    THEN "s3_delete_bucket" ELSE "s3_list_object_versions"

\* for page in paginator.paginate(Bucket=bucket_name): the next page
list_s3_buckets_list_object_versions ==
    LET objs == PageObjects(VersionPages(AccountKey, frame.items[frame.i])[frame.p])
    IN GlobalStep("s3_list_object_versions", "list_object_versions",
                  <<frame.p>>, "S3 Bucket",
                  IF objs = <<>> THEN AfterPagePc ELSE "s3_delete_object",
                  IF objs = <<>>
                  THEN [frame EXCEPT !.p = @ + 1, !.sub = <<>>, !.j = 1]
                  ELSE [frame EXCEPT !.sub = objs, !.j = 1],
                  cleanup_report, "s3_list_object_versions", "s3_finish")

\* s3_client.delete_object(Bucket=..., Key=..., VersionId=...)
list_s3_buckets_delete_object ==
    GlobalStep("s3_delete_object", "delete_object",
               <<frame.sub[frame.j].Key, frame.sub[frame.j].VersionId>>,
               "S3 Bucket",
               IF frame.j = Len(frame.sub) THEN AfterPagePc ELSE "s3_delete_object",
               IF frame.j = Len(frame.sub)
               THEN [frame EXCEPT !.p = @ + 1, !.sub = <<>>, !.j = 1]
               ELSE [frame EXCEPT !.j = @ + 1],
               cleanup_report, "s3_list_object_versions", "s3_finish")

\* s3_client.delete_bucket(Bucket=bucket_name); add_success; deleted_count += 1
list_s3_buckets_delete_bucket ==
    GlobalStep("s3_delete_bucket", "delete_bucket", <<>>, "S3 Bucket",
               NextItem("s3_list_object_versions", "s3_finish"),
               [NextResource EXCEPT !.deleted_count = @ + 1],
               add_success(cleanup_report, account_name, "S3 Bucket",
                           frame.items[frame.i], None),
               "s3_list_object_versions", "s3_finish")

list_s3_buckets_finish == Finish("s3_finish", "S3 Buckets")

-----------------------------------------------------------------------------
(* list_cloudformation_stacksets *)

\* the status of the stack set left out of the test
stackset_selected_ByNameOnly(stackset) == matches(stackset.StackSetName)

\* if ('sra' in stackset['StackSetName'].lower() and
\*     stackset['Status'] != 'DELETED'):
stackset_selected(stackset) ==
    /\ matches(stackset.StackSetName)
    /\ stackset.Status # "DELETED"

list_cloudformation_stacksets_list ==
    GlobalList("ss_list", "list_stack_sets",
               NamesOf(SelectSeq(ListStackSets(AccountKey), stackset_selected),
                       "StackSetName"),
               "CloudFormation StackSets", "ss_list_instances")

\* instances_paginator.paginate(StackSetName=...): instances_to_delete,
\* cut into the batches of the retraction loop
list_cloudformation_stacksets_list_instances ==
    LET found == Flatten(StackSetNamed(AccountKey, frame.items[frame.i]).instances)
        instances_to_delete ==
            [k \in 1..Len(found) |->
                [Account |-> found[k].Account, Region |-> found[k].Region]]
    IN GlobalStep("ss_list_instances", "list_stack_instances", <<>>,
                  "CloudFormation StackSet",
                  IF instances_to_delete = <<>> THEN "ss_delete_stack_set"
                                                ELSE "ss_delete_stack_instances",
                  [frame EXCEPT !.sub = Chunks(instances_to_delete, BatchSize),
                                !.j = 1],
                  cleanup_report, "ss_list_instances", "ss_finish")

\* a refused batch ends the teardown of its stack set
list_cloudformation_stacksets_delete_stack_instances_GiveUp ==
    /\ pc = "ss_delete_stack_instances"
    /\ LET stackset_name == frame.items[frame.i]
           batch == frame.sub[frame.j]
           after == IF frame.j = Len(frame.sub) THEN "ss_delete_stack_set"
                                                ELSE "ss_delete_stack_instances"
           request(o) == Call("delete_stack_instances", None, stackset_name, batch, o)
       IN \E o \in Outcomes :
            /\ Allowed(o)
            /\ Charge(o)
            /\ CASE o = "ok" ->
                    /\ calls' = calls \o
                          <<request(o),
                            Call("time.sleep", None, stackset_name, <<10>>, "ok")>>
                    /\ frame' = [frame EXCEPT !.j = @ + 1]
                    /\ pc' = after
                    /\ UNCHANGED <<cleanup_report, h, acct, returned>>
                 [] o = "ClientError" ->
                    /\ calls' = Append(calls, request(o))
                    /\ cleanup_report' =
                          add_error(cleanup_report, account_name,
                                    "CloudFormation StackSet Instances",
                                    stackset_name, <<o, "delete_stack_instances">>,
                                    None)
                    /\ frame' = NextResource
                    /\ pc' = NextItem("ss_list_instances", "ss_finish")
                    /\ UNCHANGED <<h, acct, returned>>
                 [] o = "Exception" ->
                    /\ calls' = Append(calls, request(o))
                    /\ Abort(<<o, "delete_stack_instances">>)
    /\ UNCHANGED discovered
    /\ UNCHANGED outer

\* try: cf_client.delete_stack_instances(...); time.sleep(10)
\* except ClientError as e: add_error(..., "CloudFormation StackSet Instances", ...)
list_cloudformation_stacksets_delete_stack_instances ==
    /\ pc = "ss_delete_stack_instances"
    /\ LET stackset_name == frame.items[frame.i]
           batch == frame.sub[frame.j]
           after == IF frame.j = Len(frame.sub) THEN "ss_delete_stack_set"
                                                ELSE "ss_delete_stack_instances"
           request(o) == Call("delete_stack_instances", None, stackset_name, batch, o)
       IN \E o \in Outcomes :
            /\ Allowed(o)
            /\ Charge(o)
            /\ CASE o = "ok" ->
                    /\ calls' = calls \o
                          <<request(o),
                            Call("time.sleep", None, stackset_name, <<10>>, "ok")>>
                    /\ frame' = [frame EXCEPT !.j = @ + 1]
                    /\ pc' = after
                    /\ UNCHANGED <<cleanup_report, h, acct, returned>>
                 [] o = "ClientError" ->
                    /\ calls' = Append(calls, request(o))
                    /\ cleanup_report' =
                          add_error(cleanup_report, account_name,
                                    "CloudFormation StackSet Instances",
                                    stackset_name, <<o, "delete_stack_instances">>,
                                    None)
                    /\ frame' = [frame EXCEPT !.j = @ + 1]
                    /\ pc' = after
                    /\ UNCHANGED <<h, acct, returned>>
                 [] o = "Exception" ->
                    /\ calls' = Append(calls, request(o))
                    /\ Abort(<<o, "delete_stack_instances">>)
    /\ UNCHANGED discovered
    /\ UNCHANGED outer

\* cf_client.delete_stack_set(StackSetName=...); add_success; deleted_count += 1
list_cloudformation_stacksets_delete_stack_set ==
    GlobalStep("ss_delete_stack_set", "delete_stack_set", <<>>,
               "CloudFormation StackSet",
               NextItem("ss_list_instances", "ss_finish"),
               [NextResource EXCEPT !.deleted_count = @ + 1],
               add_success(cleanup_report, account_name,
                           "CloudFormation StackSet", frame.items[frame.i], None),
               "ss_list_instances", "ss_finish")

list_cloudformation_stacksets_finish ==
    Finish("ss_finish", "CloudFormation StackSets")

-----------------------------------------------------------------------------
(* The run *)

Next ==
    \/ scan_account_get_session
    \/ scan_account_invoke
    \/ scan_account_return
    \/ print_summary
    \/ main_final
    \/ list_cloudformation_stacks_list
    \/ list_cloudformation_stacks_check
    \/ list_cloudformation_stacks_delete_stack
    \/ list_cloudformation_stacks_wait
    \/ list_cloudformation_stacks_describe
    \/ list_cloudformation_stacks_finish
    \/ list_lambda_functions_list
    \/ list_lambda_functions_check
    \/ list_lambda_functions_delete_function
    \/ list_lambda_functions_finish
    \/ list_iam_roles_list
    \/ list_iam_roles_list_attached
    \/ list_iam_roles_detach
    \/ list_iam_roles_list_inline
    \/ list_iam_roles_delete_inline
    \/ list_iam_roles_delete_role
    \/ list_iam_roles_finish
    \/ list_ssm_parameters_list
    \/ list_ssm_parameters_check
    \/ list_ssm_parameters_delete_parameters
    \/ list_ssm_parameters_finish
    \/ list_cloudwatch_log_groups_list
    \/ list_cloudwatch_log_groups_check
    \/ list_cloudwatch_log_groups_delete_log_group
    \/ list_cloudwatch_log_groups_finish
    \/ list_s3_buckets_list
    \/ list_s3_buckets_list_object_versions
    \/ list_s3_buckets_delete_object
    \/ list_s3_buckets_delete_bucket
    \/ list_s3_buckets_finish
    \/ list_cloudformation_stacksets_list
    \/ list_cloudformation_stacksets_list_instances
    \/ list_cloudformation_stacksets_delete_stack_instances
    \/ list_cloudformation_stacksets_delete_stack_set
    \/ list_cloudformation_stacksets_finish

Spec == Init /\ [][Next]_vars

-----------------------------------------------------------------------------
(* Vocabulary of the properties *)

AccountSet == {ACCOUNT_KEYS[k] : k \in 1..Len(ACCOUNT_KEYS)}

NameOf(a) == ACCOUNTS[a].name

\* position of an account key in the catalog: master, audit, log
AccountIndex ==
    [a \in AccountSet |-> CHOOSE k \in 1..Len(ACCOUNT_KEYS) : ACCOUNT_KEYS[k] = a]

\* the report key of an account key and a region
KeyOf == [a \in AccountSet |-> [rg \in {None, East, West} |-> Key(NameOf(a), rg)]]

CallIdx == 1..Len(calls)

\* every error entry and every success entry of the report
AllErrors ==
    UNION {{cleanup_report.errors[key][k] :
                k \in 1..Len(cleanup_report.errors[key])} : key \in Keys}

AllSuccesses ==
    UNION {{cleanup_report.successes[key][k] :
                k \in 1..Len(cleanup_report.successes[key])} : key \in Keys}

\* the count recorded under a key for a type, an absent count being 0
CountOf(dict, key, resource_type) ==
    IF resource_type \in DOMAIN dict[key] THEN dict[key][resource_type] ELSE 0

DestructiveOps ==
    {"delete_stack", "delete_function", "detach_role_policy",
     "delete_role_policy", "delete_role", "delete_parameters",
     "delete_log_group", "delete_object", "delete_bucket",
     "delete_stack_instances", "delete_stack_set"}

TopLevelDeletes ==
    {"delete_stack", "delete_function", "delete_role", "delete_log_group",
     "delete_bucket", "delete_stack_set"}

\* the name holds s, r, a in a row, in either case
HasToken(name) ==
    \E k \in 1..(Len(name) - 2) :
        /\ name[k] \in {"s", "S"}
        /\ name[k + 1] \in {"r", "R"}
        /\ name[k + 2] \in {"a", "A"}

\* the handlers scan_account is to call for an account, in the fixed order
ExpectedHandlers(a) ==
    <<"list_cloudformation_stacks", "list_lambda_functions", "list_iam_roles",
      "list_ssm_parameters", "list_cloudwatch_log_groups", "list_s3_buckets">>
    \o (IF a = "master" THEN <<"list_cloudformation_stacksets">> ELSE <<>>)

\* the handlers invoked for an account so far, in order
InvokedFor(a) ==
    LET mine == SelectSeq(invoked, LAMBDA e : e[1] = a)
    IN [k \in 1..Len(mine) |-> mine[k][2]]

IsPrefix(s, t) == Len(s) <= Len(t) /\ s = SubSeq(t, 1, Len(s))

\* the provider calls each handler issues, by position in the fixed order
HandlerOps ==
    <<{"list_stacks", "delete_stack", "wait_stack_delete_complete",
       "describe_stacks"},
      {"list_functions", "delete_function"},
      {"list_roles", "list_attached_role_policies", "detach_role_policy",
       "list_role_policies", "delete_role_policy", "delete_role"},
      {"describe_parameters", "delete_parameters"},
      {"describe_log_groups", "delete_log_group"},
      {"list_buckets", "list_object_versions", "delete_object", "delete_bucket"},
      {"list_stack_sets", "list_stack_instances", "delete_stack_instances",
       "time.sleep", "delete_stack_set"}>>

\* position in the fixed order of the handler that issues a provider call
\* (0: a call of no handler, get_caller_identity)
HandlerOf ==
    [op \in UNION {HandlerOps[n] : n \in 1..7} \cup {"get_caller_identity"} |->
        IF op = "get_caller_identity" THEN 0
        ELSE CHOOSE n \in 1..7 : op \in HandlerOps[n]]

\* the run is over: main printed its last line, or get_session raised an
\* exception that nothing catches.  calls, invoked and discovered only grow
\* and every run ends, so what holds of them here holds of every prefix
RunEnded == pc \in {"done", "crashed"}

RoleTeardownOps ==
    {"list_attached_role_policies", "detach_role_policy", "list_role_policies",
     "delete_role_policy", "delete_role"}

\* every object version and delete marker of a bucket, over all pages
EnumeratedObjects(a, bucket) ==
    LET pages == BucketNamed(a, bucket).pages
    IN UNION {UNION {{<<pages[n][f][k].Key, pages[n][f][k].VersionId>> :
                        k \in 1..Len(pages[n][f])} :
                     f \in {"Versions", "DeleteMarkers"} \cap DOMAIN pages[n]} :
              n \in 1..Len(pages)}

-----------------------------------------------------------------------------
(* C1 *)

\* C1: in advisory mode (delete_mode false) no destructive provider call is
\* ever issued, no success entry is recorded and no deleted count is recorded.
C1_AdvisoryIssuesNoTeardown ==
    ~delete_mode =>
        /\ \A k \in CallIdx : calls[k].op \notin DestructiveOps
        /\ AllSuccesses = {}
        /\ \A key \in Keys : DOMAIN cleanup_report.resources_deleted[key] = {}

\* an advisory run that found resources in every handler of the rich account
\* and ran to its end
C1_Witness ==
    /\ ~delete_mode
    /\ pc = "done"
    /\ \E d \in 1..Len(discovered) : discovered[d].resource_type = "S3 Buckets"
    /\ \E d \in 1..Len(discovered) : discovered[d].resource_type = "CloudFormation Stacks"
    /\ \E d \in 1..Len(discovered) : discovered[d].resource_type = "CloudFormation StackSets"

-----------------------------------------------------------------------------
(* C2 *)

\* C2: in both modes, every resource counted as found and every target of a
\* top-level delete call (the names of a delete_parameters batch included)
\* has a name containing 'sra' case-insensitively; the found counts count
\* exactly the discovered entries; no success entry names a resource without
\* the token.
C2_OnlyTokenNamesFoundOrDeleted ==
    /\ \A d \in 1..Len(discovered) : HasToken(discovered[d].name)
    /\ RunEnded => \A key \in Keys :
         \A t \in DOMAIN cleanup_report.resources_found[key] :
            cleanup_report.resources_found[key][t] =
                Cardinality({d \in 1..Len(discovered) :
                                /\ discovered[d].resource_type = t
                                /\ KeyOf[discovered[d].account][discovered[d].region] = key})
    /\ RunEnded => \A k \in CallIdx :
         /\ calls[k].op \in TopLevelDeletes => HasToken(calls[k].target)
         /\ calls[k].op = "delete_parameters" =>
                \A n \in 1..Len(calls[k].arg) : HasToken(calls[k].arg[n])
    /\ \A s \in AllSuccesses : HasToken(s.resource_name)

\* a mixed-case name was found and an upper-case one deleted, in a listing
\* that also holds names without the token
C2_Witness ==
    /\ \E d \in 1..Len(discovered) : discovered[d].name = xSrA
    /\ \E k \in CallIdx :
         /\ calls[k].op = "delete_bucket"
         /\ calls[k].target = SRA2
         /\ \E b \in 1..Len(aws[calls[k].account].buckets) :
                ~HasToken(aws[calls[k].account].buckets[b].Name)

-----------------------------------------------------------------------------
(* C3 *)

\* C3: within one account the handlers are invoked in the order Stack,
\* Function, Role, Parameter, LogGroup, Bucket and then StackSet, the latter
\* for master only; the provider calls of one account are contiguous and
\* those of one handler all come before those of the next; an account whose
\* scan_account returned True had all of its handlers invoked, StackSet exactly if it is master; and no call of the
\* Role teardown is issued before delete_stack and delete_function have been
\* issued for every discovered stack and function of the account, whatever
\* their outcome.
C3_HandlersRunInFixedOrder ==
    /\ \A a \in AccountSet :
         /\ IsPrefix(InvokedFor(a), ExpectedHandlers(a))
         /\ returned[a] = "True" => InvokedFor(a) = ExpectedHandlers(a)
    /\ RunEnded => \A k \in 1..(Len(calls) - 1) :
         /\ AccountIndex[calls[k].account] <= AccountIndex[calls[k + 1].account]
         /\ calls[k].account = calls[k + 1].account
               => HandlerOf[calls[k].op] <= HandlerOf[calls[k + 1].op]
    /\ RunEnded =>
       LET earlier == {d \in 1..Len(discovered) :
                          discovered[d].resource_type \in
                              {"CloudFormation Stacks", "Lambda Functions"}}
           deletes == {m \in CallIdx :
                          calls[m].op \in {"delete_stack", "delete_function"}}
       IN \A k \in CallIdx :
            calls[k].op \in RoleTeardownOps =>
               \A d \in earlier :
                  discovered[d].account = calls[k].account
                  => \E m \in deletes :
                        /\ m < k
                        /\ calls[m].account = calls[k].account
                        /\ calls[m].op =
                              (IF discovered[d].resource_type = "CloudFormation Stacks"
                               THEN "delete_stack" ELSE "delete_function")
                        /\ calls[m].region = discovered[d].region
                        /\ calls[m].target = discovered[d].name

\* an apply run in which master and audit both completed, a stack deletion
\* of master failed, and master's roles were torn down afterwards
C3_Witness ==
    /\ delete_mode
    /\ returned["master"] = "True"
    /\ returned["audit"] = "True"
    /\ \E k, m \in CallIdx :
         /\ k < m
         /\ calls[k].account = "master"
         /\ calls[m].account = "master"
         /\ calls[k].op = "delete_stack"
         /\ calls[k].result = "ClientError"
         /\ calls[m].op = "delete_role"
    /\ \E n \in 1..Len(invoked) : invoked[n] = <<"master", "list_cloudformation_stacksets">>

-----------------------------------------------------------------------------
(* C4 *)

\* C4: if a handler of an account raises an error it does not catch, the
\* handlers that follow it in the fixed order are still invoked for that
\* account (the error being recorded as one entry): an account that is
\* finished and has a "Proceso General" entry had all its handlers invoked.
C4_LaterHandlersRunAfterUncaughtError ==
    \A a \in AccountSet :
        (/\ returned[a] # "none"
         /\ \E e \in 1..Len(cleanup_report.errors[Key(NameOf(a), None)]) :
                cleanup_report.errors[Key(NameOf(a), None)][e].resource_type
                    = "Proceso General")
        => InvokedFor(a) = ExpectedHandlers(a)

-----------------------------------------------------------------------------
(* C5 *)

\* C5: the final status line announces success if and only if every
\* scan_account returned True and the report holds no error entry.
C5_SuccessIffAllTrueAndNoErrors ==
    pc = "done" =>
        (announced = "success" <=>
            /\ \A a \in AccountSet : returned[a] = "True"
            /\ total_errors(cleanup_report) = 0)

-----------------------------------------------------------------------------
(* C6 *)

\* C6: whenever an error entry was recorded, in either mode, the process
\* ends with a failure exit status.
C6_ErrorsGiveFailureExit ==
    (exit_status # "running" /\ total_errors(cleanup_report) > 0)
        => exit_status # "0"

-----------------------------------------------------------------------------
(* C7 *)

\* C7: in apply mode, under every report key and for every resource type,
\* the deleted count is at most the found count under the same key (an
\* absent count being 0).
C7_DeletedAtMostFound ==
    delete_mode =>
        \A key \in Keys :
            \A t \in DOMAIN cleanup_report.resources_deleted[key] :
                CountOf(cleanup_report.resources_deleted, key, t)
                    <= CountOf(cleanup_report.resources_found, key, t)

-----------------------------------------------------------------------------
(* C8 *)

\* the entries of the report (errors) that name a resource of an account
ErrorsNaming(a, resource_type, name) ==
    {e \in 1..Len(cleanup_report.errors[Key(NameOf(a), None)]) :
        /\ cleanup_report.errors[Key(NameOf(a), None)][e].resource_type = resource_type
        /\ cleanup_report.errors[Key(NameOf(a), None)][e].resource_name = name}

\* C8: in apply mode, when a delete_object call of a bucket's emptying fails,
\* delete_bucket is still issued exactly once for that bucket, and the error
\* recorded for the bucket is the one delete_bucket returned.
C8_BucketDeleteAttemptedAfterEmptyingFailure ==
    \A k \in CallIdx :
        (/\ calls[k].op = "delete_object"
         /\ calls[k].result = "ClientError"
         /\ returned[calls[k].account] # "none")
        => /\ Cardinality({m \in CallIdx :
                             /\ calls[m].op = "delete_bucket"
                             /\ calls[m].account = calls[k].account
                             /\ calls[m].target = calls[k].target}) = 1
           /\ \A e \in ErrorsNaming(calls[k].account, "S3 Bucket", calls[k].target) :
                cleanup_report.errors[Key(NameOf(calls[k].account), None)][e].error[2]
                    = "delete_bucket"

-----------------------------------------------------------------------------
(* C9 *)

\* C9: in apply mode, when detaching a managed policy or deleting an inline
\* policy of a role fails, delete_role is still attempted for that role, and
\* the failed step has an error entry of its own beside the entry (success
\* or error) of delete_role.
C9_RoleDeleteAttemptedAfterDetachFailure ==
    \A k \in CallIdx :
        (/\ calls[k].op \in {"detach_role_policy", "delete_role_policy"}
         /\ calls[k].result = "ClientError"
         /\ returned[calls[k].account] # "none")
        => /\ \E m \in CallIdx :
                /\ m > k
                /\ calls[m].op = "delete_role"
                /\ calls[m].account = calls[k].account
                /\ calls[m].target = calls[k].target
           /\ \E e \in ErrorsNaming(calls[k].account, "IAM Role", calls[k].target) :
                cleanup_report.errors[Key(NameOf(calls[k].account), None)][e].error[2]
                    = calls[k].op

-----------------------------------------------------------------------------
(* C10 *)

\* C10: in apply mode, when delete_bucket is issued for a bucket, a
\* delete_object call has already been issued for every object version and
\* every delete marker of all pages of its version listing, one call each
\* (3 versions and 1 marker: 4 calls); and a success entry of a bucket is
\* recorded only once its delete_bucket call returned without error.
C10_BucketEmptiedBeforeDelete ==
    /\ \A k \in CallIdx :
         calls[k].op = "delete_bucket" =>
            LET emptied == {m \in 1..(k - 1) :
                              /\ calls[m].op = "delete_object"
                              /\ calls[m].account = calls[k].account
                              /\ calls[m].target = calls[k].target}
                objects == EnumeratedObjects(calls[k].account, calls[k].target)
            IN /\ \A o \in objects : \E m \in emptied : calls[m].arg = o
               /\ Cardinality(emptied) = Cardinality(objects)
    /\ \A a \in AccountSet :
         \A s \in 1..Len(cleanup_report.successes[Key(NameOf(a), None)]) :
            LET entry == cleanup_report.successes[Key(NameOf(a), None)][s]
            IN entry.resource_type = "S3 Bucket" =>
                  \E k \in CallIdx :
                     /\ calls[k].op = "delete_bucket"
                     /\ calls[k].account = a
                     /\ calls[k].target = entry.resource_name
                     /\ calls[k].result = "ok"

\* the bucket with 3 versions and 1 delete marker over 2 pages was emptied
\* by 4 delete_object calls, deleted, and its success recorded
C10_Witness ==
    \E k \in CallIdx :
        /\ calls[k].op = "delete_bucket"
        /\ calls[k].target = SRA2
        /\ calls[k].result = "ok"
        /\ Cardinality(EnumeratedObjects(calls[k].account, SRA2)) = 4
        /\ Len(BucketNamed(calls[k].account, SRA2).pages) = 2
        /\ \E s \in AllSuccesses :
              s.resource_type = "S3 Bucket" /\ s.resource_name = SRA2

-----------------------------------------------------------------------------
(* C11 *)

\* every stack instance list_stack_instances yields for a stack set, over
\* all pages
EnumeratedInstances(a, stackset_name) ==
    LET found == Flatten(StackSetNamed(a, stackset_name).instances)
    IN {[Account |-> found[k].Account, Region |-> found[k].Region] :
            k \in 1..Len(found)}

\* the instances a delete_stack_instances request names
Covers(request) == {request.arg[n] : n \in 1..Len(request.arg)}

\* C11: in apply mode delete_stack_set is issued for a stack set only once
\* every enumerated instance of it has been named by a delete_stack_instances
\* request that the provider accepted.
C11_StackSetDeletedAfterInstancesRetracted ==
    \A k \in CallIdx :
        calls[k].op = "delete_stack_set" =>
           \A inst \in EnumeratedInstances(calls[k].account, calls[k].target) :
              \E m \in 1..(k - 1) :
                 /\ calls[m].op = "delete_stack_instances"
                 /\ calls[m].account = calls[k].account
                 /\ calls[m].target = calls[k].target
                 /\ calls[m].result = "ok"
                 /\ inst \in Covers(calls[m])

-----------------------------------------------------------------------------
(* C12 *)

\* the discovered parameter names of an account in one region
DiscoveredParameters(a, region) ==
    {discovered[d].name : d \in {x \in 1..Len(discovered) :
                                    /\ discovered[x].account = a
                                    /\ discovered[x].resource_type = "SSM Parameters"
                                    /\ discovered[x].region = region}}

\* the batch requests issued so far
BatchCalls ==
    {k \in CallIdx : calls[k].op \in {"delete_parameters", "delete_stack_instances"}}

\* two batch requests over the same list: the parameters of one region of
\* an account, or the instances of one stack set
SameList(k, m) ==
    /\ calls[k].op = calls[m].op
    /\ calls[k].account = calls[m].account
    /\ calls[k].region = calls[m].region
    /\ calls[k].target = calls[m].target

\* C12: no delete_parameters request carries more than 10 names and no
\* delete_stack_instances request more than 10 instances; a parameter batch
\* holds only names discovered in the region it is sent to and an instance
\* batch only instances of its stack set; no name or instance is in two
\* batches; and once the batch loop has run to its end (the parameters'
\* deleted count is recorded, delete_stack_set is issued) every discovered
\* name and every enumerated instance is in exactly one issued batch.
C12_BatchesOfAtMostTen ==
    RunEnded =>
      /\ \A k \in BatchCalls :
           /\ Len(calls[k].arg) \in 1..10
           /\ Cardinality(Covers(calls[k])) = Len(calls[k].arg)
           /\ calls[k].op = "delete_parameters" =>
                 Covers(calls[k]) \subseteq
                    DiscoveredParameters(calls[k].account, calls[k].region)
           /\ calls[k].op = "delete_stack_instances" =>
                 Covers(calls[k]) \subseteq
                    EnumeratedInstances(calls[k].account, calls[k].target)
      /\ \A k \in BatchCalls, m \in BatchCalls :
           (k < m /\ SameList(k, m)) => Covers(calls[k]) \cap Covers(calls[m]) = {}
      /\ \A a \in AccountSet :
           "SSM Parameters" \in DOMAIN cleanup_report.resources_deleted[KeyOf[a][None]] =>
              \A rg \in {East, West} :
                 \A name \in DiscoveredParameters(a, rg) :
                    \E k \in BatchCalls :
                       /\ calls[k].op = "delete_parameters"
                       /\ calls[k].account = a
                       /\ calls[k].region = rg
                       /\ name \in Covers(calls[k])
      /\ \A k \in CallIdx :
           calls[k].op = "delete_stack_set" =>
              \A inst \in EnumeratedInstances(calls[k].account, calls[k].target) :
                 \E m \in BatchCalls :
                    /\ m < k
                    /\ calls[m].op = "delete_stack_instances"
                    /\ calls[m].account = calls[k].account
                    /\ calls[m].target = calls[k].target
                    /\ inst \in Covers(calls[m])

\* an apply run that sent the 11 parameters of one region as a batch of 10
\* and a batch of 1 before the batch of the other region, and the 11
\* instances of a stack set as 10 and 1 before its delete_stack_set
C12_Witness ==
    /\ RunEnded
    /\ \E k \in 1..(Len(calls) - 2) :
         /\ calls[k].op = "delete_parameters"
         /\ calls[k].region = East
         /\ Len(calls[k].arg) = 10
         /\ calls[k + 1].op = "delete_parameters"
         /\ calls[k + 1].region = East
         /\ Len(calls[k + 1].arg) = 1
         /\ calls[k + 2].op = "delete_parameters"
         /\ calls[k + 2].region = West
         /\ Cardinality(DiscoveredParameters(calls[k].account, East)) = 11
    /\ \E k \in CallIdx, m \in CallIdx, n \in CallIdx :
         /\ k < m /\ m < n
         /\ calls[k].op = "delete_stack_instances" /\ Len(calls[k].arg) = 10
         /\ calls[m].op = "delete_stack_instances" /\ Len(calls[m].arg) = 1
         /\ calls[n].op = "delete_stack_set"
         /\ calls[n].target = calls[k].target
         /\ calls[n].target = calls[m].target
         /\ Cardinality(EnumeratedInstances(calls[n].account, calls[n].target)) = 11

-----------------------------------------------------------------------------
(* C13 *)

\* whether a success entry is recorded for a stack
StackSuccess(a, region, name) ==
    \E s \in 1..Len(cleanup_report.successes[KeyOf[a][region]]) :
        /\ cleanup_report.successes[KeyOf[a][region]][s].resource_type =
              "CloudFormation Stack"
        /\ cleanup_report.successes[KeyOf[a][region]][s].resource_name = name

\* what the error entries recorded for a stack say
StackErrors(a, region, name) ==
    {cleanup_report.errors[KeyOf[a][region]][e].error :
        e \in {x \in 1..Len(cleanup_report.errors[KeyOf[a][region]]) :
                 /\ cleanup_report.errors[KeyOf[a][region]][x].resource_type =
                       "CloudFormation Stack"
                 /\ cleanup_report.errors[KeyOf[a][region]][x].resource_name = name}}

\* the delete_stack requests the provider accepted
AcceptedStackDeletes ==
    {k \in CallIdx : calls[k].op = "delete_stack" /\ calls[k].result = "ok"}

\* the terminal state of the stack of an accepted delete_stack request:
\* "waited" when the wait completed, else what the fallback query answered
TerminalState(k) ==
    IF calls[k + 1].result = "ok" THEN "waited" ELSE calls[k + 2].result

\* C13: in apply mode, after delete_stack was accepted for a stack, a
\* success entry is recorded for it exactly if the wait completed or the
\* fallback query answered DELETE_COMPLETE; a fallback answer DELETE_FAILED
\* records one error saying manual deletion is required, any other status
\* one error naming the unexpected state; and the deleted count of the
\* account counts exactly the stacks with a success entry, so a stack that
\* is DELETE_FAILED after the wait failed is neither a success nor counted.
C13_StackOutcomeFollowsTerminalState ==
    RunEnded =>
      /\ \A k \in AcceptedStackDeletes :
           LET a == calls[k].account
               region == calls[k].region
               name == calls[k].target
           IN /\ k + 1 <= Len(calls)
              /\ calls[k + 1].op = "wait_stack_delete_complete"
              /\ calls[k + 1].result # "ok" =>
                    /\ k + 2 <= Len(calls)
                    /\ calls[k + 2].op = "describe_stacks"
                    /\ calls[k + 2].target = name
              /\ StackSuccess(a, region, name) <=>
                    TerminalState(k) \in {"waited", "DELETE_COMPLETE"}
              /\ TerminalState(k) \in {"waited", "DELETE_COMPLETE"} =>
                    StackErrors(a, region, name) = {}
              /\ TerminalState(k) = "DELETE_FAILED" =>
                    StackErrors(a, region, name) =
                       {<<"Estado - Requiere eliminacion manual", "DELETE_FAILED">>}
              /\ TerminalState(k) \notin {"waited", "DELETE_COMPLETE",
                                          "DELETE_FAILED", "ClientError"} =>
                    StackErrors(a, region, name) = {<<"Estado", TerminalState(k)>>}
      /\ \A a \in AccountSet :
           "CloudFormation Stacks" \in
                DOMAIN cleanup_report.resources_deleted[KeyOf[a][None]] =>
              cleanup_report.resources_deleted[KeyOf[a][None]]["CloudFormation Stacks"] =
                 Cardinality({k \in AcceptedStackDeletes :
                                 /\ calls[k].account = a
                                 /\ TerminalState(k) \in {"waited", "DELETE_COMPLETE"}})

\* an apply run in which the wait for a stack failed and the fallback query
\* answered DELETE_FAILED: the manual-deletion error is recorded, no success
C13_Witness ==
    /\ RunEnded
    /\ \E k \in AcceptedStackDeletes :
         /\ calls[k + 1].result = "WaiterError"
         /\ calls[k + 2].result = "DELETE_FAILED"
         /\ ~StackSuccess(calls[k].account, calls[k].region, calls[k].target)
         /\ <<"Estado - Requiere eliminacion manual", "DELETE_FAILED">> \in
               StackErrors(calls[k].account, calls[k].region, calls[k].target)
         /\ \E m \in AcceptedStackDeletes :
               /\ calls[m].account = calls[k].account
               /\ TerminalState(m) = "waited"

-----------------------------------------------------------------------------
(* C14 *)

\* the destructive requests issued so far
DestructiveCalls == {k \in CallIdx : calls[k].op \in DestructiveOps}

\* what a destructive request asks for: the operation and the resource
RequestOf(k) ==
    <<calls[k].op, calls[k].account, calls[k].region, calls[k].target, calls[k].arg>>

\* two calls about the same stack
SameStack(k, m) ==
    /\ calls[k].account = calls[m].account
    /\ calls[k].region = calls[m].region
    /\ calls[k].target = calls[m].target

\* C14: stack teardown is a bounded protocol: delete_stack is issued at most
\* once per discovered stack; the only wait is the one that follows an
\* accepted delete_stack, bounded by 60 attempts 10 s apart; the status is
\* queried exactly once, right after a wait that failed, and never
\* otherwise; and no destructive request of any handler is issued twice for
\* the same resource within one run.
C14_TeardownBoundedNoRetry ==
    RunEnded =>
      /\ Cardinality({RequestOf(k) : k \in DestructiveCalls}) =
            Cardinality(DestructiveCalls)
      /\ \A k \in CallIdx :
           /\ calls[k].op = "wait_stack_delete_complete" =>
                 /\ calls[k].arg = <<10, 60>>
                 /\ k > 1
                 /\ calls[k - 1].op = "delete_stack"
                 /\ calls[k - 1].result = "ok"
                 /\ SameStack(k - 1, k)
                 /\ calls[k].result # "ok" =>
                       /\ k < Len(calls)
                       /\ calls[k + 1].op = "describe_stacks"
           /\ calls[k].op = "describe_stacks" =>
                 /\ k > 1
                 /\ calls[k - 1].op = "wait_stack_delete_complete"
                 /\ calls[k - 1].result # "ok"
                 /\ SameStack(k - 1, k)
           /\ (calls[k].op = "delete_stack" /\ calls[k].result = "ok") =>
                 /\ k < Len(calls)
                 /\ calls[k + 1].op = "wait_stack_delete_complete"

\* an apply run that ended after a wait failed, was followed by the one
\* status query, and the teardown went on with the next stack
C14_Witness ==
    /\ RunEnded
    /\ \E k \in 1..(Len(calls) - 2) :
         /\ calls[k].op = "wait_stack_delete_complete"
         /\ calls[k].result = "WaiterError"
         /\ calls[k + 1].op = "describe_stacks"
         /\ calls[k + 2].op = "delete_stack"
         /\ ~SameStack(k, k + 2)
    /\ Cardinality(DestructiveCalls) > 20

-----------------------------------------------------------------------------
(* C15 *)

\* the accounts whose session acquisition failed: get_session returned None
SessionFailed ==
    {calls[k].account :
        k \in {x \in CallIdx : /\ calls[x].op = "get_caller_identity"
                               /\ calls[x].result \in {"NoCredentialsError",
                                                       "ClientError"}}}

\* C15: when session acquisition fails for an account, for missing
\* credentials or a client error, scan_account records exactly one
\* connection error under the account's key and nothing else under any of
\* its keys, returns False, invokes no handler, and issues no provider call
\* for the account but the failed identity check.
C15_FailedSessionStopsAccount ==
    RunEnded =>
      \A a \in SessionFailed :
         /\ returned[a] = "False"
         /\ Len(cleanup_report.errors[KeyOf[a][None]]) = 1
         /\ cleanup_report.errors[KeyOf[a][None]][1].resource_type = "Conexion"
         /\ cleanup_report.errors[KeyOf[a][None]][1].resource_name = <<"sesion">>
         /\ \A rg \in {East, West} : cleanup_report.errors[KeyOf[a][rg]] = <<>>
         /\ \A rg \in {None, East, West} :
               /\ cleanup_report.successes[KeyOf[a][rg]] = <<>>
               /\ cleanup_report.resources_found[KeyOf[a][rg]] = EmptyDict
               /\ cleanup_report.resources_deleted[KeyOf[a][rg]] = EmptyDict
         /\ InvokedFor(a) = <<>>
         /\ Cardinality({k \in CallIdx : calls[k].account = a}) = 1

\* a run in which the session of audit could not be acquired for missing
\* credentials, while master before it and log after it were scanned
C15_Witness ==
    /\ RunEnded
    /\ "audit" \in SessionFailed
    /\ \E k \in CallIdx : /\ calls[k].account = "audit"
                          /\ calls[k].result = "NoCredentialsError"
    /\ InvokedFor("master") # <<>>
    /\ InvokedFor("log") # <<>>
    /\ returned["log"] = "True"

-----------------------------------------------------------------------------
(* C16 *)

\* C16: scan_account returns False exactly if the session could not be
\* acquired: an account whose session was acquired never returns False,
\* whatever errors its handlers recorded or raised.
C16_FalseOnlyOnSessionFailure ==
    \A a \in AccountSet :
        returned[a] = "False" <=> a \in SessionFailed

-----------------------------------------------------------------------------
(* C17 *)

\* the resource type each listing operation reports under
ListingType ==
    [list_stacks         |-> "CloudFormation Stacks",
     list_functions      |-> "Lambda Functions",
     describe_parameters |-> "SSM Parameters",
     describe_log_groups |-> "CloudWatch Log Groups",
     list_roles          |-> "IAM Roles",
     list_buckets        |-> "S3 Buckets",
     list_stack_sets     |-> "CloudFormation StackSets"]

\* the listing calls the provider answered with an error
FailedListings ==
    {k \in CallIdx : /\ calls[k].op \in DOMAIN ListingType
                     /\ calls[k].result = "ClientError"}

\* the "listado" error entries of a resource type under a key
ListingErrors(a, region, resource_type) ==
    {e \in 1..Len(cleanup_report.errors[KeyOf[a][region]]) :
        /\ cleanup_report.errors[KeyOf[a][region]][e].resource_type = resource_type
        /\ cleanup_report.errors[KeyOf[a][region]][e].resource_name = <<"listado">>}

\* the teardown operation of each region-scoped resource type
TeardownOp ==
    "CloudFormation Stacks" :> "delete_stack"
    @@ "Lambda Functions" :> "delete_function"
    @@ "CloudWatch Log Groups" :> "delete_log_group"
    @@ "SSM Parameters" :> "delete_parameters"

\* whether the teardown request of a discovered region-scoped resource was
\* issued after call k
TornDownAfter(k, d) ==
    \E m \in (k + 1)..Len(calls) :
        /\ calls[m].op = TeardownOp[discovered[d].resource_type]
        /\ calls[m].account = discovered[d].account
        /\ calls[m].region = discovered[d].region
        /\ IF calls[m].op = "delete_parameters"
           THEN discovered[d].name \in Covers(calls[m])
           ELSE calls[m].target = discovered[d].name

\* C17: when a listing call is answered with a provider error, exactly one
\* "listado" error entry is recorded for the resource type under the key of
\* the account and region (of the account, for the account-global types),
\* and the run goes on: the other region is listed by the same handler, the
\* error itself never ends the account's run, and in an account that ran to
\* its end every later handler was invoked and, in apply mode, a teardown
\* request was issued for every resource of the type discovered in the
\* other region.
C17_ListingErrorRecordedOnceAndRunGoesOn ==
    RunEnded =>
      \A k \in FailedListings :
         LET a == calls[k].account
             region == calls[k].region
             resource_type == ListingType[calls[k].op]
         IN /\ Cardinality(ListingErrors(a, region, resource_type)) = 1
            /\ region = East =>
                  /\ k < Len(calls)
                  /\ calls[k + 1].op = calls[k].op
                  /\ calls[k + 1].account = a
                  /\ calls[k + 1].region = West
            /\ region = West =>
                  /\ calls[k - 1].op = calls[k].op
                  /\ calls[k - 1].account = a
                  /\ calls[k - 1].region = East
            /\ \/ returned[a] = "True"
               \/ \E m \in (k + 1)..Len(calls) :
                     calls[m].account = a /\ calls[m].result = "Exception"
            /\ returned[a] = "True" =>
                  /\ InvokedFor(a) = ExpectedHandlers(a)
                  /\ (delete_mode /\ region # None) =>
                        \A d \in 1..Len(discovered) :
                           (/\ discovered[d].account = a
                            /\ discovered[d].resource_type = resource_type)
                           => /\ discovered[d].region # region
                              /\ TornDownAfter(k, d)

\* an apply run in which listing the stacks of master failed in the first
\* region: the error is recorded once, the second region was listed, the
\* stack found there was deleted, and all seven handlers ran for master
C17_Witness ==
    /\ RunEnded
    /\ delete_mode
    /\ \E k \in FailedListings :
         /\ calls[k].op = "list_stacks"
         /\ calls[k].account = "master"
         /\ calls[k].region = East
         /\ calls[k + 1].result = "ok"
         /\ \E m \in CallIdx : /\ calls[m].op = "delete_stack"
                               /\ calls[m].region = West
                               /\ calls[m].target = SRA2
    /\ Cardinality(ListingErrors("master", East, "CloudFormation Stacks")) = 1
    /\ InvokedFor("master") = ExpectedHandlers("master")
    /\ returned["master"] = "True"

-----------------------------------------------------------------------------
(* C18 *)

\* the names the provider holds for a listing operation, over all of its
\* pages: what the listing yields when everything comes in one page
WholeListing(a, op, region) ==
    CASE op = "list_stacks" ->
            NamesOf(SelectSeq(Flatten(aws[a].stacks[region]),
                              LAMBDA s : s.StackStatus \in StackStatusFilter),
                    "StackName")
      [] op = "list_functions"      -> Flatten(aws[a].functions[region])
      [] op = "describe_parameters" -> Flatten(aws[a].parameters[region])
      [] op = "describe_log_groups" -> Flatten(aws[a].log_groups[region])
      [] op = "list_roles"   -> NamesOf(Flatten(aws[a].roles), "RoleName")
      [] op = "list_buckets" -> NamesOf(aws[a].buckets, "Name")
      [] op = "list_stack_sets" ->
            NamesOf(SelectSeq(Flatten(aws[a].stack_sets),
                              LAMBDA x : x.Status # "DELETED"),
                    "StackSetName")

\* the names discovered for an account, a resource type and a region
DiscoveredNames(a, resource_type, region) ==
    NamesOf(SelectSeq(discovered,
                      LAMBDA d : /\ d.account = a
                                 /\ d.resource_type = resource_type
                                 /\ d.region = region),
            "name")

\* C18: for every resource type, a listing that succeeded discovered
\* exactly the matching names the provider holds, however the provider
\* split them into pages: the same names, and so the same found count and
\* the same teardown, as when everything comes in one page.
C18_DiscoveryCompleteAcrossPages ==
    \A k \in CallIdx :
        (calls[k].op \in DOMAIN ListingType /\ calls[k].result = "ok") =>
            DiscoveredNames(calls[k].account, ListingType[calls[k].op],
                            calls[k].region) =
               SelectSeq(WholeListing(calls[k].account, calls[k].op,
                                      calls[k].region), HasToken)

-----------------------------------------------------------------------------
(* C19 *)

\* the names of the entities that exist in an account and region for a
\* listing operation, whatever their status; a stack in DELETE_COMPLETE no
\* longer exists
ExistingNames(a, op, region) ==
    LET names ==
          IF op = "list_stacks"
          THEN NamesOf(SelectSeq(Flatten(aws[a].stacks[region]),
                                 LAMBDA s : s.StackStatus # "DELETE_COMPLETE"),
                       "StackName")
          ELSE WholeListing(a, op, region)
    IN {names[n] : n \in 1..Len(names)}

\* C19: for Stack, Function, Role, Parameter, LogGroup and Bucket, after a
\* listing that succeeded an existing entity of the account and region is
\* discovered exactly if its name contains 'sra' case-insensitively,
\* whatever its status.
C19_NameIsSoleSelectionPredicate ==
    \A k \in CallIdx :
        (/\ calls[k].op \in DOMAIN ListingType
         /\ calls[k].op # "list_stack_sets"
         /\ calls[k].result = "ok") =>
            LET found == DiscoveredNames(calls[k].account,
                                         ListingType[calls[k].op], calls[k].region)
            IN \A name \in ExistingNames(calls[k].account, calls[k].op,
                                         calls[k].region) :
                  HasToken(name) <=> \E n \in 1..Len(found) : found[n] = name

-----------------------------------------------------------------------------
(* C20 *)

\* the stack sets of an account whose name holds the token and whose status
\* is not DELETED, in listing order
LiveTokenStackSets(a) ==
    NamesOf(SelectSeq(Flatten(aws[a].stack_sets),
                      LAMBDA x : HasToken(x.StackSetName) /\ x.Status # "DELETED"),
            "StackSetName")

StackSetOps ==
    {"list_stack_instances", "delete_stack_instances", "delete_stack_set"}

\* C20: a stack-set listing that succeeded discovered exactly the stack
\* sets whose name contains 'sra' case-insensitively and whose status is not
\* DELETED, and counted that many as found; no instance listing, instance
\* retraction or delete_stack_set is ever issued for a stack set whose
\* status is DELETED.
C20_DeletedStackSetsLeftOut ==
    RunEnded =>
      /\ \A k \in CallIdx :
           (calls[k].op = "list_stack_sets" /\ calls[k].result = "ok") =>
              LET a == calls[k].account
              IN /\ DiscoveredNames(a, "CloudFormation StackSets", None) =
                       LiveTokenStackSets(a)
                 /\ CountOf(cleanup_report.resources_found, KeyOf[a][None],
                            "CloudFormation StackSets") = Len(LiveTokenStackSets(a))
      /\ \A k \in CallIdx :
           calls[k].op \in StackSetOps =>
              /\ HasToken(calls[k].target)
              /\ StackSetNamed(calls[k].account, calls[k].target).Status # "DELETED"

\* an apply run over a master that holds an active stack set with
\* instances and one already DELETED, both with the token in their names:
\* the DELETED one is not among the discovered ones, the active one was
\* deleted
C20_Witness ==
    /\ RunEnded
    /\ delete_mode
    /\ \E n \in 1..Len(Flatten(aws["master"].stack_sets)) :
          /\ Flatten(aws["master"].stack_sets)[n].Status = "DELETED"
          /\ HasToken(Flatten(aws["master"].stack_sets)[n].StackSetName)
    /\ DiscoveredNames("master", "CloudFormation StackSets", None) = <<sra1, xSrA>>
    /\ \E k \in CallIdx : /\ calls[k].op = "delete_stack_set"
                          /\ calls[k].target = sra1
                          /\ calls[k].result = "ok"

-----------------------------------------------------------------------------
(* C21 *)

\* the names the report uses for the seven resource types of the catalog:
\* the one of a single resource and the one of a listing
CatalogTypes ==
    {"CloudFormation Stack", "CloudFormation Stacks",
     "Lambda Function", "Lambda Functions",
     "IAM Role", "IAM Roles",
     "SSM Parameter", "SSM Parameters",
     "CloudWatch Log Group", "CloudWatch Log Groups",
     "S3 Bucket", "S3 Buckets",
     "CloudFormation StackSet", "CloudFormation StackSets"}

\* C21: every success entry and every error entry of the report has a
\* resource type that is one of the seven types of the catalog (stack,
\* function, role, parameter, log group, bucket, stack set).
C21_EntryTypesInCatalog ==
    /\ \A e \in AllErrors : e.resource_type \in CatalogTypes
    /\ \A s \in AllSuccesses : s.resource_type \in CatalogTypes

-----------------------------------------------------------------------------
(* C23 *)

\* the accounts scan_account was invoked for, in order: each invocation
\* starts with the identity check of get_session
ScannedAccounts ==
    NamesOf(SelectSeq(calls, LAMBDA c : c.op = "get_caller_identity"), "account")

\* C23: main invokes scan_account exactly once for each account, in the
\* order master, audit, log, whatever happened to an earlier account, and
\* the report is rendered once all three have been processed: when the run
\* is over all three accounts were scanned and the summary was printed.
C23_AllAccountsScannedThenReport ==
    /\ IsPrefix(ScannedAccounts, ACCOUNT_KEYS)
    /\ summary # "none" => ScannedAccounts = ACCOUNT_KEYS
    /\ RunEnded => (ScannedAccounts = ACCOUNT_KEYS /\ summary # "none")

-----------------------------------------------------------------------------
(* C24 *)

\* what a listing call that succeeds yields for an account and region
ListingOf(a, op, region) ==
    IF op = "list_stacks" THEN ListStacks(a, region)
    ELSE WholeListing(a, op, region)

\* the listing calls of an account in the order of the handlers, as
\* <<operation, region>>
ExpectedListings(a) ==
    <<<<"list_stacks", East>>, <<"list_stacks", West>>,
      <<"list_functions", East>>, <<"list_functions", West>>,
      <<"list_roles", None>>,
      <<"describe_parameters", East>>, <<"describe_parameters", West>>,
      <<"describe_log_groups", East>>, <<"describe_log_groups", West>>,
      <<"list_buckets", None>>>>
    \o (IF a = "master" THEN <<<<"list_stack_sets", None>>>> ELSE <<>>)

\* the listing calls issued for an account, in order
ListingsOf(a) ==
    LET mine == SelectSeq(calls, LAMBDA c : /\ c.account = a
                                            /\ c.op \in DOMAIN ListingType)
    IN [k \in 1..Len(mine) |-> <<mine[k].op, mine[k].region>>]

\* the listing calls that succeeded
SucceededListings ==
    {k \in CallIdx : /\ calls[k].op \in DOMAIN ListingType
                     /\ calls[k].result = "ok"}

\* the accounts whose session was acquired and none of whose listing calls
\* raised anything but a provider client error
ListedWithoutCrash ==
    {a \in AccountSet :
       /\ \E k \in CallIdx : /\ calls[k].op = "get_caller_identity"
                             /\ calls[k].account = a
                             /\ calls[k].result = "ok"
       /\ \A k \in CallIdx :
            (calls[k].account = a /\ calls[k].op \in DOMAIN ListingType)
               => calls[k].result \in {"ok", "ClientError"}}

\* C24: discovery does not depend on the mode: whatever the mode, an account
\* whose listing calls answered issues the same listing calls, one per type
\* and region in the order of the handlers, and the found counts are those
\* of the listings that succeeded, under the key of their account and
\* region: the number of names with the token in what the provider listed,
\* and no other found count.  An advisory run issues no other call, so this
\* is what it does; an apply run has to do the same.
C24_DiscoveryNotGatedByMode ==
    RunEnded =>
      /\ \A a \in ListedWithoutCrash : ListingsOf(a) = ExpectedListings(a)
      /\ \A k \in SucceededListings :
           CountOf(cleanup_report.resources_found,
                   KeyOf[calls[k].account][calls[k].region],
                   ListingType[calls[k].op]) =
              Len(SelectSeq(ListingOf(calls[k].account, calls[k].op,
                                      calls[k].region), HasToken))
      /\ \A a \in AccountSet, rg \in {None, East, West} :
           \A t \in DOMAIN cleanup_report.resources_found[KeyOf[a][rg]] :
              \E k \in SucceededListings :
                 /\ calls[k].account = a
                 /\ calls[k].region = rg
                 /\ ListingType[calls[k].op] = t

\* the same statement of the advisory runs alone
C24_AdvisoryRunListsEverything ==
    ~delete_mode => C24_DiscoveryNotGatedByMode

-----------------------------------------------------------------------------
(* C25 *)

\* the delete_parameters requests of an account
ParameterRequests(a) ==
    {k \in CallIdx : calls[k].op = "delete_parameters" /\ calls[k].account = a}

\* the entries of a list of the report under the key of an account and
\* region that are of a type and name a resource
EntriesNaming(dict, a, region, resource_type, name) ==
    {e \in 1..Len(dict[KeyOf[a][region]]) :
        /\ dict[KeyOf[a][region]][e].resource_type = resource_type
        /\ dict[KeyOf[a][region]][e].resource_name = name}

\* the number of names in the requests of a set
RECURSIVE NamesSent(_)
NamesSent(requests) ==
    IF requests = {} THEN 0
    ELSE LET k == CHOOSE x \in requests : TRUE
         IN Len(calls[k].arg) + NamesSent(requests \ {k})

\* C25: in apply mode a delete_parameters request that succeeds leaves
\* exactly one success entry and no error entry for each of its names, one
\* the provider refuses with a client error exactly one error entry and no
\* success entry for each of its names; no parameter entry names anything
\* outside the requests of its region; a refused request stops no later
\* batch, of its region or the other: every discovered name is sent; and the
\* deleted count of the account is the number of names in the requests that
\* succeeded.
C25_BatchOutcomeAttributedToEachName ==
    RunEnded =>
      \A a \in AccountSet :
        /\ \A k \in ParameterRequests(a) : \A name \in Covers(calls[k]) :
             LET good == EntriesNaming(cleanup_report.successes, a, calls[k].region,
                                       "SSM Parameter", name)
                 bad == EntriesNaming(cleanup_report.errors, a, calls[k].region,
                                      "SSM Parameter", name)
             IN /\ calls[k].result = "ok" =>
                     Cardinality(good) = 1 /\ bad = {}
                /\ calls[k].result = "ClientError" =>
                     Cardinality(bad) = 1 /\ good = {}
        /\ \A rg \in {East, West} :
             /\ \A e \in 1..Len(cleanup_report.successes[KeyOf[a][rg]]) :
                  cleanup_report.successes[KeyOf[a][rg]][e].resource_type = "SSM Parameter"
                    => \E k \in ParameterRequests(a) :
                          /\ calls[k].region = rg
                          /\ calls[k].result = "ok"
                          /\ cleanup_report.successes[KeyOf[a][rg]][e].resource_name
                                \in Covers(calls[k])
             /\ \A e \in 1..Len(cleanup_report.errors[KeyOf[a][rg]]) :
                  (/\ cleanup_report.errors[KeyOf[a][rg]][e].resource_type = "SSM Parameter"
                   /\ cleanup_report.errors[KeyOf[a][rg]][e].resource_name # <<"listado">>)
                    => \E k \in ParameterRequests(a) :
                          /\ calls[k].region = rg
                          /\ calls[k].result = "ClientError"
                          /\ cleanup_report.errors[KeyOf[a][rg]][e].resource_name
                                \in Covers(calls[k])
        /\ (/\ ParameterRequests(a) # {}
            /\ \A k \in ParameterRequests(a) : calls[k].result \in {"ok", "ClientError"})
             => /\ \A rg \in {East, West} : \A name \in DiscoveredParameters(a, rg) :
                     \E k \in ParameterRequests(a) :
                        calls[k].region = rg /\ name \in Covers(calls[k])
                /\ "SSM Parameters" \in DOMAIN cleanup_report.resources_deleted[KeyOf[a][None]]
                /\ cleanup_report.resources_deleted[KeyOf[a][None]]["SSM Parameters"] =
                      NamesSent({k \in ParameterRequests(a) : calls[k].result = "ok"})

\* an apply run in which the provider refused the first batch of ten names
\* of master in us-east-1: ten error entries, the eleventh name and the
\* name of us-west-2 sent and recorded as successes, a deleted count of 2
C25_Witness ==
    /\ RunEnded
    /\ delete_mode
    /\ \E k \in ParameterRequests("master") :
          /\ calls[k].result = "ClientError"
          /\ calls[k].region = East
          /\ Len(calls[k].arg) = 10
          /\ \E m \in ParameterRequests("master") :
                m > k /\ calls[m].region = East /\ calls[m].result = "ok"
          /\ \E m \in ParameterRequests("master") :
                m > k /\ calls[m].region = West /\ calls[m].result = "ok"
    /\ CountOf(cleanup_report.resources_deleted, KeyOf["master"][None],
               "SSM Parameters") = 2
    /\ Cardinality({e \in 1..Len(cleanup_report.errors[KeyOf["master"][East]]) :
          cleanup_report.errors[KeyOf["master"][East]][e].resource_type
             = "SSM Parameter"}) = 10

-----------------------------------------------------------------------------
(* C26 *)

\* the requests of a stack set's teardown
StackSetRequests ==
    {k \in CallIdx : calls[k].op \in {"delete_stack_instances", "delete_stack_set"}}

\* C26: the instance batches of a stack set are sent one after the other,
\* and a pause lies between any delete_stack_instances request and the next
\* request of the same stack set, be it the next batch or delete_stack_set,
\* also when the provider refused the earlier request.
C26_PauseBetweenRetractionRequests ==
    \A k \in StackSetRequests, m \in StackSetRequests :
        (/\ k < m
         /\ calls[k].op = "delete_stack_instances"
         /\ calls[k].account = calls[m].account
         /\ calls[k].target = calls[m].target)
           => \E p \in (k + 1)..(m - 1) :
                 /\ calls[p].op = "time.sleep"
                 /\ calls[p].target = calls[k].target

\* the same statement of the requests the provider accepted
C26_PauseAfterAcceptedRetraction ==
    \A k \in StackSetRequests :
        (calls[k].op = "delete_stack_instances" /\ calls[k].result = "ok")
           => /\ k < Len(calls)
              /\ calls[k + 1].op = "time.sleep"
              /\ calls[k + 1].target = calls[k].target
              /\ calls[k + 1].arg = <<10>>

-----------------------------------------------------------------------------
(* C27 *)

\* the type of the outcome entries of the resources counted under a type
SingularOf ==
    [t \in {"CloudFormation Stacks", "Lambda Functions", "IAM Roles",
            "SSM Parameters", "CloudWatch Log Groups", "S3 Buckets"} |->
       CASE t = "CloudFormation Stacks"  -> "CloudFormation Stack"
         [] t = "Lambda Functions"       -> "Lambda Function"
         [] t = "IAM Roles"              -> "IAM Role"
         [] t = "SSM Parameters"         -> "SSM Parameter"
         [] t = "CloudWatch Log Groups"  -> "CloudWatch Log Group"
         [] t = "S3 Buckets"             -> "S3 Bucket"]

\* every failure of the run is a provider client error (or a wait that
\* gave up): no call raised anything else
OnlyClientErrors ==
    \A k \in CallIdx : calls[k].result \notin {"Exception", "NoCredentialsError"}

\* the entries of a list of the report that are of a type, over the keys
\* of an account, as <<region, index>>
EntriesOfType(dict, a, resource_type) ==
    {<<rg, e>> \in {None, East, West} \X (1..(Len(calls) + Len(discovered))) :
        /\ e <= Len(dict[KeyOf[a][rg]])
        /\ dict[KeyOf[a][rg]][e].resource_type = resource_type
        /\ dict[KeyOf[a][rg]][e].resource_name # <<"listado">>}

\* the found counts of a type summed over the keys of an account
TotalFound(a, plural) ==
    CountOf(cleanup_report.resources_found, KeyOf[a][None], plural)
    + CountOf(cleanup_report.resources_found, KeyOf[a][East], plural)
    + CountOf(cleanup_report.resources_found, KeyOf[a][West], plural)

\* C27: in an apply run whose failures are all provider client errors,
\* every discovered stack, function, role, log group, bucket and parameter
\* has exactly one outcome entry, a success or an error and never both; so
\* for each of these types and each account the success entries and the
\* per-resource error entries together are as many as the resources found
\* over the regions.
C27_OneOutcomePerDiscoveredResource ==
    (RunEnded /\ delete_mode /\ OnlyClientErrors) =>
      /\ \A d \in 1..Len(discovered) :
           discovered[d].resource_type \in DOMAIN SingularOf =>
              Cardinality(EntriesNaming(cleanup_report.successes,
                                        discovered[d].account, discovered[d].region,
                                        SingularOf[discovered[d].resource_type],
                                        discovered[d].name))
              + Cardinality(EntriesNaming(cleanup_report.errors,
                                          discovered[d].account, discovered[d].region,
                                          SingularOf[discovered[d].resource_type],
                                          discovered[d].name)) = 1
      /\ \A a \in AccountSet, t \in DOMAIN SingularOf :
           Cardinality(EntriesOfType(cleanup_report.successes, a, SingularOf[t]))
           + Cardinality(EntriesOfType(cleanup_report.errors, a, SingularOf[t]))
              = TotalFound(a, t)

\* an apply run in which the provider refused delete_stack for one stack of
\* master: that stack has its one error entry, the other stacks of the
\* account their successes, and together they are the stacks found in the
\* two regions
C27_Witness ==
    /\ RunEnded
    /\ delete_mode
    /\ OnlyClientErrors
    /\ \E k \in CallIdx : /\ calls[k].op = "delete_stack"
                          /\ calls[k].account = "master"
                          /\ calls[k].result = "ClientError"
    /\ Cardinality(EntriesOfType(cleanup_report.errors, "master",
                                 "CloudFormation Stack")) = 1
    /\ Cardinality(EntriesOfType(cleanup_report.successes, "master",
                                 "CloudFormation Stack")) >= 1
    /\ CountOf(cleanup_report.resources_found, KeyOf["master"][East],
               "CloudFormation Stacks") >= 1
    /\ CountOf(cleanup_report.resources_found, KeyOf["master"][West],
               "CloudFormation Stacks") >= 1

-----------------------------------------------------------------------------
(* C28 *)

\* the type of the outcome entry of a resource, for every counted type
SingularOfCounted ==
    [t \in DOMAIN SingularOf \cup {"CloudFormation StackSets"} |->
       IF t \in DOMAIN SingularOf THEN SingularOf[t] ELSE "CloudFormation StackSet"]

\* the names the entries of a type carry under one key of an account
NamesWithEntry(dict, a, region, resource_type) ==
    {dict[KeyOf[a][region]][e].resource_name :
        e \in {x \in 1..Len(dict[KeyOf[a][region]]) :
                 dict[KeyOf[a][region]][x].resource_type = resource_type}}

-----------------------------------------------------------------------------
(* C29 *)

\* the requests of an operation sent for a stack set of an account
RequestsFor(a, op, stackset_name) ==
    {k \in CallIdx : /\ calls[k].op = op
                     /\ calls[k].account = a
                     /\ calls[k].target = stackset_name}

\* the stack sets a delete_stack_instances request of the account was
\* refused for, none of their requests raising anything but a client error
RefusedStackSets(a) ==
    {calls[k].target : k \in
        {x \in CallIdx :
           /\ calls[x].op = "delete_stack_instances"
           /\ calls[x].account = a
           /\ calls[x].result = "ClientError"
           /\ \A y \in CallIdx :
                (/\ calls[y].account = a
                 /\ calls[y].target = calls[x].target
                 /\ calls[y].op \in {"delete_stack_instances", "delete_stack_set"})
                   => calls[y].result \in {"ok", "ClientError"}}}

\* C29: in apply mode, for a stack set one of whose delete_stack_instances
\* batches the provider refused: each refused batch leaves one error entry
\* of type 'CloudFormation StackSet Instances' naming the stack set; every
\* enumerated instance is still sent in a batch; delete_stack_set is sent
\* exactly once, after the batches; and the stack set has one more entry of
\* its own, a success if delete_stack_set succeeded and an error if not.
C29_RefusedBatchDoesNotStopStackSetTeardown ==
    (RunEnded /\ delete_mode) =>
      \A a \in AccountSet : \A name \in RefusedStackSets(a) :
        LET batches == RequestsFor(a, "delete_stack_instances", name)
            final == RequestsFor(a, "delete_stack_set", name)
            good == EntriesNaming(cleanup_report.successes, a, None,
                                  "CloudFormation StackSet", name)
            bad == EntriesNaming(cleanup_report.errors, a, None,
                                 "CloudFormation StackSet", name)
        IN /\ Cardinality(EntriesNaming(cleanup_report.errors, a, None,
                                        "CloudFormation StackSet Instances", name))
                = Cardinality({k \in batches : calls[k].result = "ClientError"})
           /\ \A inst \in EnumeratedInstances(a, name) :
                \E k \in batches : inst \in Covers(calls[k])
           /\ Cardinality(final) = 1
           /\ \A k \in batches, m \in final : k < m
           /\ \A m \in final :
                /\ calls[m].result = "ok" => (Cardinality(good) = 1 /\ bad = {})
                /\ calls[m].result = "ClientError" => (Cardinality(bad) = 1 /\ good = {})

\* an apply run in which the provider refused the first of the two batches
\* of stack set 'sra1': the second batch and delete_stack_set followed, and
\* the stack set has its instances error and its own success
C29_Witness ==
    /\ RunEnded
    /\ delete_mode
    /\ sra1 \in RefusedStackSets("master")
    /\ Cardinality(RequestsFor("master", "delete_stack_instances", sra1)) = 2
    /\ \E k \in RequestsFor("master", "delete_stack_instances", sra1) :
          /\ calls[k].result = "ClientError"
          /\ \E m \in RequestsFor("master", "delete_stack_instances", sra1) :
                m > k /\ calls[m].result = "ok"
    /\ \E m \in RequestsFor("master", "delete_stack_set", sra1) : calls[m].result = "ok"
    /\ Cardinality(EntriesNaming(cleanup_report.errors, "master", None,
                                 "CloudFormation StackSet Instances", sra1)) = 1
    /\ Cardinality(EntriesNaming(cleanup_report.successes, "master", None,
                                 "CloudFormation StackSet", sra1)) = 1

-----------------------------------------------------------------------------
(* C22 *)

\* whether the run recorded a success for a resource
Succeeded(a, region, resource_type, name) ==
    EntriesNaming(cleanup_report.successes, a, region, resource_type, name) # {}

\* the run was an apply run that recorded no error and a success for every
\* resource it discovered
CleanApplyRun ==
    /\ delete_mode
    /\ AllErrors = {}
    /\ \A d \in 1..Len(discovered) :
          Succeeded(discovered[d].account, discovered[d].region,
                    SingularOfCounted[discovered[d].resource_type],
                    discovered[d].name)

\* the pages of a listing of names without the names that satisfy Gone
Without(pages, Gone(_)) ==
    [p \in 1..Len(pages) |-> SelectSeq(pages[p], LAMBDA name : ~Gone(name))]

\* what the provider holds after the run: a resource whose delete succeeded
\* is gone, a deleted stack is in DELETE_COMPLETE and a deleted stack set in
\* DELETED
Settle ==
    [a \in AccountSet |->
       [stacks |->
          [rg \in {East, West} |->
             [p \in 1..Len(aws[a].stacks[rg]) |->
                [n \in 1..Len(aws[a].stacks[rg][p]) |->
                   LET s == aws[a].stacks[rg][p][n]
                   IN IF Succeeded(a, rg, "CloudFormation Stack", s.StackName)
                      THEN [s EXCEPT !.StackStatus = "DELETE_COMPLETE"]
                      ELSE s]]],
        functions |->
          [rg \in {East, West} |->
             Without(aws[a].functions[rg],
                     LAMBDA name : Succeeded(a, rg, "Lambda Function", name))],
        parameters |->
          [rg \in {East, West} |->
             Without(aws[a].parameters[rg],
                     LAMBDA name : Succeeded(a, rg, "SSM Parameter", name))],
        log_groups |->
          [rg \in {East, West} |->
             Without(aws[a].log_groups[rg],
                     LAMBDA name : Succeeded(a, rg, "CloudWatch Log Group", name))],
        roles |->
          [p \in 1..Len(aws[a].roles) |->
             SelectSeq(aws[a].roles[p],
                       LAMBDA x : ~Succeeded(a, None, "IAM Role", x.RoleName))],
        buckets |->
          SelectSeq(aws[a].buckets,
                    LAMBDA x : ~Succeeded(a, None, "S3 Bucket", x.Name)),
        stack_sets |->
          [p \in 1..Len(aws[a].stack_sets) |->
             [n \in 1..Len(aws[a].stack_sets[p]) |->
                LET x == aws[a].stack_sets[p][n]
                IN IF Succeeded(a, None, "CloudFormation StackSet", x.StackSetName)
                   THEN [x EXCEPT !.Status = "DELETED"]
                   ELSE x]]]]

\* the operator invokes the tool once more, in either mode, after an apply
\* run that recorded a success for every discovered resource: main() starts
\* again against what that run left at the provider
rerun ==
    /\ pc = "done"
    /\ aws = World
    /\ CleanApplyRun
    /\ aws' = Settle
    /\ delete_mode' \in BOOLEAN
    /\ pc' = "main"
    /\ acct' = 1
    /\ h' = 0
    /\ frame' = NewFrame
    /\ cleanup_report' = NewReport
    /\ calls' = <<>>
    /\ invoked' = <<>>
    /\ discovered' = <<>>
    /\ returned' = [k \in DOMAIN ACCOUNTS |-> "none"]
    /\ success_count' = 0
    /\ summary' = "none"
    /\ announced' = "none"
    /\ exit_status' = "running"
    /\ UNCHANGED faults

\* a run of the tool, and a second one after a clean apply run
SpecRerun == Init /\ [][Next \/ rerun]_vars

\* the run is the second one
SecondRun == aws # World

\* C22: a run that follows an apply run which recorded a success for every
\* discovered resource discovers nothing, in either mode: it records no
\* found count, issues no delete call and records no success entry, and no
\* error entry unless one of its own calls fails.
C22_SecondRunDiscoversNothing ==
    SecondRun =>
      /\ discovered = <<>>
      /\ \A key \in Keys : DOMAIN cleanup_report.resources_found[key] = {}
      /\ DestructiveCalls = {}
      /\ AllSuccesses = {}
      /\ (\A k \in CallIdx : calls[k].result = "ok") => AllErrors = {}

====
